---- MODULE Spec2Model ----
(***************************************************************************)
(* Robot-assisted sensor deployment (base station, mobile robots, sensor   *)
(* replies) as implemented by the four source variants of the repository:  *)
(*   app1  src/app1.c                         (Rime, tables shared)        *)
(*   top   src/base-station.c, src/mobile-robot.c                          *)
(*   wsn   src/src/base-station.c, src/src/mobile-robot.c                  *)
(*   dis   src/disaster-wsn-deployment/*.c                                 *)
(* Names of the source are kept; a prefix tells the variant where the      *)
(* same name is used by several files.                                     *)
(***************************************************************************)
EXTENDS Integers, Sequences, FiniteSets, TLC

(***************************************************************************)
(* Configuration of app1.c.  The geometry and the stock figures are scaled *)
(* down (3 location areas of 2x2 grids, stock 2 of capacity 3).            *)
(***************************************************************************)
app1_BS_NODE_ID == 1
app1_ROBOT_NODE_ID_START == 2
app1_NUM_ROBOTS == 2
app1_ROBOT_PERCEPTION_RANGE == 200
app1_TARGET_AREA_SIZE_X == 600
app1_TARGET_AREA_SIZE_Y == 200
app1_SENSOR_SENSING_RANGE == 100
app1_ROBOT_STOCK_CAPACITY == 3
app1_ROBOT_INITIAL_STOCK == 2
app1_MAX_SENSORS == 2

app1_SENSOR_NODE_ID_START == app1_ROBOT_NODE_ID_START + app1_NUM_ROBOTS
app1_LA_WIDTH == app1_ROBOT_PERCEPTION_RANGE
app1_LA_HEIGHT == app1_ROBOT_PERCEPTION_RANGE
app1_NUM_LAs_X == app1_TARGET_AREA_SIZE_X \div app1_LA_WIDTH
app1_NUM_LAs_Y == app1_TARGET_AREA_SIZE_Y \div app1_LA_HEIGHT
app1_NO_LA == app1_NUM_LAs_X * app1_NUM_LAs_Y
app1_GRID_WIDTH == app1_SENSOR_SENSING_RANGE
app1_GRID_HEIGHT == app1_SENSOR_SENSING_RANGE
app1_NUM_GRIDS_X_PER_LA == app1_ROBOT_PERCEPTION_RANGE \div app1_GRID_WIDTH
app1_NUM_GRIDS_Y_PER_LA == app1_ROBOT_PERCEPTION_RANGE \div app1_GRID_HEIGHT
app1_NO_G_PER_DIM == app1_ROBOT_PERCEPTION_RANGE \div app1_SENSOR_SENSING_RANGE
app1_MAX_GRIDS_PER_LA == app1_NO_G_PER_DIM * app1_NO_G_PER_DIM
app1_MAX_SENSORS_PER_LA == app1_MAX_SENSORS

(***************************************************************************)
(* Bounds of the exploration.                                              *)
(***************************************************************************)
\* copies of a message the network may deliver beyond the first
MaxDup == 1
\* value at which the counters the code never bounds stop growing
MaxCount == 3
\* messages the network holds at a time
MaxNet == 1

VARIABLES
    variant,     \* which source variant runs
    nodes,       \* ids of the robot and sensor nodes deployed
    la_db,       \* LA_DB of the base station
    robot_db,    \* Robot_DB of the base station
    bs,          \* the other fields of the base station and its process
    robot,       \* the state of each mobile robot, by node id
    sensor,      \* the state of each sensor node, by node id
    net,         \* messages sent and not yet consumed or lost
    dups,        \* duplicate deliveries made so far
    out,         \* messages sent by the last step
    hist         \* observations of the run (not program state)

vars == <<variant, nodes, la_db, robot_db, bs, robot, sensor, net, dups, out, hist>>

Coord(x, y) == [x |-> x, y |-> y]

\* calculate_distance, squared: the code compares distances only
dist2(p1, p2) == (p1.x - p2.x) * (p1.x - p2.x) + (p1.y - p2.y) * (p1.y - p2.y)

Min(a, b) == IF a < b THEN a ELSE b

RECURSIVE SumSeq(_)
SumSeq(s) == IF s = <<>> THEN 0 ELSE Head(s) + SumSeq(Tail(s))

\* indices of a table, in the order a for loop visits them
Indices(n) == [i \in 1..n |-> i - 1]

\* first index (in loop order) satisfying Test, or -1
FirstIndex(n, Test(_)) ==
    IF \E i \in 0..(n - 1) : Test(i)
    THEN CHOOSE i \in 0..(n - 1) : Test(i) /\ \A j \in 0..(i - 1) : ~Test(j)
    ELSE -1

(***************************************************************************)
(* app1.c: base station                                                    *)
(***************************************************************************)
app1_Robots == app1_ROBOT_NODE_ID_START..(app1_ROBOT_NODE_ID_START + app1_NUM_ROBOTS - 1)

\* BS initialisation of LA_DB: ids row-major from 0, centre of each cell
app1_init_la_db ==
    [i \in 0..(app1_NO_LA - 1) |->
        [la_id |-> i,
         center_coord |-> Coord((i % app1_NUM_LAs_X) * app1_LA_WIDTH + app1_LA_WIDTH \div 2,
                                (i \div app1_NUM_LAs_X) * app1_LA_HEIGHT + app1_LA_HEIGHT \div 2),
         num_covered_grids |-> 0]]

\* BS initialisation of Robot_DB: first robot to LA 0, second to the last LA
app1_init_robot_db ==
    [i \in 0..(app1_NUM_ROBOTS - 1) |->
        [robot_id |-> app1_ROBOT_NODE_ID_START + i,
         assigned_la_id |-> IF i = 0 THEN 0 ELSE app1_NO_LA - 1]]

\* the LA index unicast_recv_bs finds for the reporting robot, or -1
app1_assigned_la_idx(rdb, robot_id) ==
    LET p == FirstIndex(app1_NUM_ROBOTS, LAMBDA i : rdb[i].robot_id = robot_id)
    IN  IF p = -1 THEN -1 ELSE rdb[p].assigned_la_id

\* unicast_recv_bs applied to a Robot_pM of the right size
app1_recv_report(ldb, rdb, b, m) ==
    LET la == app1_assigned_la_idx(rdb, m.robot_id)
        credit == la # -1 /\ ldb[la].num_covered_grids = 0
        fin == b.robots_finished_current_phase + 1
    IN  [la_db |-> IF credit
                   THEN [ldb EXCEPT ![la].num_covered_grids = m.covered_grids_in_la]
                   ELSE ldb,
         bs |-> [b EXCEPT
                   !.total_covered_grids_global_bs =
                       IF credit THEN @ + m.covered_grids_in_la ELSE @,
                   !.robots_finished_current_phase = fin,
                   !.events = IF fin = app1_NUM_ROBOTS THEN @ + 1 ELSE @],
         credited |-> IF credit THEN la ELSE -1]

\* first LA (by index) whose count is 0, or -1: the scan of the reassignment loop
app1_find_uncovered(ldb) ==
    FirstIndex(app1_NO_LA, LAMBDA i : ldb[i].num_covered_grids = 0)

\* the reassignment loop of the BS process: every robot gets the first
\* LA whose count is 0
app1_reassign(ldb, rdb) ==
    LET la == app1_find_uncovered(ldb)
    IN  IF la = -1 THEN rdb
        ELSE [i \in DOMAIN rdb |-> [rdb[i] EXCEPT !.assigned_la_id = ldb[la].la_id]]

\* Per_AC as the fraction num/den of 100: total / (NO_LA * MAX_GRIDS_PER_LA) * 100
app1_Per_AC(b) ==
    [num |-> b.total_covered_grids_global_bs * 100,
     den |-> app1_NO_LA * app1_MAX_GRIDS_PER_LA]

(***************************************************************************)
(* app1.c: mobile robot                                                    *)
(***************************************************************************)
app1_SensorIds == app1_SENSOR_NODE_ID_START..(app1_SENSOR_NODE_ID_START + app1_MAX_SENSORS)

\* Grid_DB of an LA: row-major, centre of each cell
app1_init_grid_db(la_center) ==
    LET ox == la_center.x - app1_LA_WIDTH \div 2
        oy == la_center.y - app1_LA_HEIGHT \div 2
    IN  [g \in 0..(app1_MAX_GRIDS_PER_LA - 1) |->
            [grid_id |-> g,
             center_coord |->
                 Coord(ox + (g % app1_NUM_GRIDS_X_PER_LA) * app1_GRID_WIDTH + app1_GRID_WIDTH \div 2,
                       oy + (g \div app1_NUM_GRIDS_X_PER_LA) * app1_GRID_HEIGHT + app1_GRID_HEIGHT \div 2),
             grid_status |-> 0]]

\* memset(robot_sensor_db, 0, ...)
app1_empty_sensor_db ==
    [i \in 0..(app1_MAX_SENSORS_PER_LA - 1) |->
        [sensor_node_id |-> 0, coord |-> Coord(0, 0), sensor_status |-> 0]]

\* unicast_recv_robot applied to a Sensor_M of the right size: the record
\* with this id is updated, else the first empty slot takes it, else dropped
app1_upsert_sensor(db, m) ==
    LET hit == FirstIndex(app1_MAX_SENSORS_PER_LA, LAMBDA i : db[i].sensor_node_id = m.sensor_id)
        free == FirstIndex(app1_MAX_SENSORS_PER_LA, LAMBDA i : db[i].sensor_node_id = 0)
    IN  IF hit # -1
        THEN [db EXCEPT ![hit].coord = m.sensor_coord, ![hit].sensor_status = m.sensor_status]
        ELSE IF free # -1
        THEN [db EXCEPT ![free] = [sensor_node_id |-> m.sensor_id, coord |-> m.sensor_coord,
                                   sensor_status |-> m.sensor_status]]
        ELSE db

\* the scan as it would be without the test of grid_status: the nearest grid
app1_nearest_grid(gdb, pos) ==
    CHOOSE i \in DOMAIN gdb :
        \A j \in DOMAIN gdb : \/ dist2(pos, gdb[i].center_coord) < dist2(pos, gdb[j].center_coord)
                              \/ (dist2(pos, gdb[i].center_coord) = dist2(pos, gdb[j].center_coord)
                                  /\ i <= j)

\* nearest uncovered grid from pos: strict <, so the lowest index wins a tie
app1_nearest_uncovered(gdb, pos) ==
    LET U == {i \in DOMAIN gdb : gdb[i].grid_status = 0}
    IN  IF U = {} THEN -1
        ELSE CHOOSE i \in U :
                \A j \in U : \/ dist2(pos, gdb[i].center_coord) < dist2(pos, gdb[j].center_coord)
                             \/ (dist2(pos, gdb[i].center_coord) = dist2(pos, gdb[j].center_coord)
                                 /\ i <= j)

\* sensors_to_collect_node_ids: ids of the records within Rs/2 of pos, in slot order
app1_sensors_in_grid(db, pos) ==
    LET near(i) == db[i].sensor_node_id # 0
                   /\ 4 * dist2(db[i].coord, pos) <= app1_SENSOR_SENSING_RANGE * app1_SENSOR_SENSING_RANGE
        slots == SelectSeq(Indices(app1_MAX_SENSORS_PER_LA), near)
    IN  [k \in 1..Len(slots) |-> db[slots[k]].sensor_node_id]

\* the collection loop of Case 1 and Case 3: skip is the id Case 3 activated
\* (0 in Case 1); it stops at the first id met with the stock at capacity
RECURSIVE app1_collect(_, _, _, _, _)
app1_collect(ids, skip, db, stock, cmds) ==
    IF ids = <<>> THEN [db |-> db, stock |-> stock, cmds |-> cmds]
    ELSE IF skip # 0 /\ Head(ids) = skip
    THEN app1_collect(Tail(ids), skip, db, stock, cmds)
    ELSE IF stock < app1_ROBOT_STOCK_CAPACITY
    THEN LET j == FirstIndex(app1_MAX_SENSORS_PER_LA,
                             LAMBDA i : db[i].sensor_node_id = Head(ids))
         IN  IF j = -1 THEN app1_collect(Tail(ids), skip, db, stock, cmds)
             ELSE app1_collect(Tail(ids), skip,
                               [db EXCEPT ![j].sensor_node_id = 0], stock + 1,
                               Append(cmds, [type |-> "Robot_to_Sensor",
                                             sensor_id |-> Head(ids),
                                             activate_status |-> 0,
                                             new_coord |-> db[j].coord]))
    ELSE [db |-> db, stock |-> stock, cmds |-> cmds]

\* which of the four cases applies
app1_case(stock, n) ==
    IF stock > 0 /\ n > 0 THEN 1
    ELSE IF stock > 0 /\ n = 0 THEN 2
    ELSE IF stock = 0 /\ n > 0 THEN 3
    ELSE 4

\* the iteration of the dispersion loop as it would be if Case 4 marked the
\* grid covered like the other cases
app1_visit_grid_covering_case4(rb, t) ==
    LET pos == rb.robot_grid_db[t].center_coord
        ids == app1_sensors_in_grid(rb.robot_sensor_db, pos)
        c == app1_case(rb.robot_stock_rs, Len(ids))
        activate == [type |-> "Robot_to_Sensor", sensor_id |-> ids[1],
                     activate_status |-> 1, new_coord |-> pos]
        col == IF c = 1
               THEN app1_collect(ids, 0, rb.robot_sensor_db, rb.robot_stock_rs - 1, <<>>)
               ELSE IF c = 2
               THEN [db |-> rb.robot_sensor_db, stock |-> rb.robot_stock_rs - 1, cmds |-> <<>>]
               ELSE IF c = 3
               THEN app1_collect(ids, ids[1], rb.robot_sensor_db, rb.robot_stock_rs, <<activate>>)
               ELSE [db |-> rb.robot_sensor_db, stock |-> rb.robot_stock_rs, cmds |-> <<>>]
        grid_became_covered == TRUE
        newly == grid_became_covered /\ rb.robot_grid_db[t].grid_status = 0
    IN  [rb |-> [rb EXCEPT
                   !.robot_current_pos = pos,
                   !.robot_sensor_db = col.db,
                   !.robot_stock_rs = col.stock,
                   !.robot_grid_db = IF newly THEN [@ EXCEPT ![t].grid_status = 1] ELSE @,
                   !.num_covered_grids_in_this_la = IF newly THEN @ + 1 ELSE @,
                   !.robot_no_p = @ - 1,
                   !.visits = @ + 1,
                   !.last_case = c],
         out |-> col.cmds]

\* one iteration of the dispersion loop for target grid t (t # -1)
app1_visit_grid(rb, t) ==
    LET pos == rb.robot_grid_db[t].center_coord
        ids == app1_sensors_in_grid(rb.robot_sensor_db, pos)
        c == app1_case(rb.robot_stock_rs, Len(ids))
        activate == [type |-> "Robot_to_Sensor", sensor_id |-> ids[1],
                     activate_status |-> 1, new_coord |-> pos]
        col == IF c = 1
               THEN app1_collect(ids, 0, rb.robot_sensor_db, rb.robot_stock_rs - 1, <<>>)
               ELSE IF c = 2
               THEN [db |-> rb.robot_sensor_db, stock |-> rb.robot_stock_rs - 1, cmds |-> <<>>]
               ELSE IF c = 3
               THEN app1_collect(ids, ids[1], rb.robot_sensor_db, rb.robot_stock_rs, <<activate>>)
               ELSE [db |-> rb.robot_sensor_db, stock |-> rb.robot_stock_rs, cmds |-> <<>>]
        grid_became_covered == c # 4
        newly == grid_became_covered /\ rb.robot_grid_db[t].grid_status = 0
    IN  [rb |-> [rb EXCEPT
                   !.robot_current_pos = pos,
                   !.robot_sensor_db = col.db,
                   !.robot_stock_rs = col.stock,
                   !.robot_grid_db = IF newly THEN [@ EXCEPT ![t].grid_status = 1] ELSE @,
                   !.num_covered_grids_in_this_la = IF newly THEN @ + 1 ELSE @,
                   !.robot_no_p = @ - 1,
                   !.visits = @ + 1,
                   !.last_case = c],
         out |-> col.cmds]

\* the values a non-static local of the protothread may hold after the
\* process has yielded: the value it had, or what the stack holds by then
app1_StaleValues == {app1_MAX_GRIDS_PER_LA + 1}

app1_after_yield(v) == {v} \cup app1_StaleValues

\* end of the local phase: Robot_pM to the BS, NO_P and stock reset
app1_send_report(rb, r, covered) ==
    [rb |-> [rb EXCEPT !.pc = "idle",
                       !.robot_no_p = app1_MAX_GRIDS_PER_LA,
                       !.robot_stock_rs = app1_ROBOT_INITIAL_STOCK,
                       !.last_case = 0],
     out |-> <<[type |-> "Robot_pM", robot_id |-> r,
                covered_grids_in_la |-> covered]>>]

\* the dispersion loop from its test to the next wait; found is the value
\* the report reads from the local num_covered_grids_in_this_la
app1_dispersion_loop(rb, r, found) ==
    LET t == app1_nearest_uncovered(rb.robot_grid_db, rb.robot_current_pos)
    IN  IF rb.robot_no_p > 0 /\ t # -1
        THEN LET v == app1_visit_grid(rb, t)
             IN  [rb |-> [v.rb EXCEPT !.pc = "dispersion"], out |-> v.out]
        ELSE app1_send_report(rb, r, found)

app1_robot_init ==
    [pc |-> "idle",
     robot_current_la_id |-> 0,
     robot_grid_db |-> [g \in 0..(app1_MAX_GRIDS_PER_LA - 1) |->
                           [grid_id |-> 0, center_coord |-> Coord(0, 0), grid_status |-> 0]],
     robot_sensor_db |-> app1_empty_sensor_db,
     robot_stock_rs |-> app1_ROBOT_INITIAL_STOCK,
     robot_no_p |-> 0,
     robot_current_pos |-> Coord(app1_TARGET_AREA_SIZE_X \div 2, app1_TARGET_AREA_SIZE_Y \div 2),
     num_covered_grids_in_this_la |-> 0,
     visits |-> 0,
     last_case |-> 0]

\* a message handed to the network: it is dropped when MaxNet are in flight
Send(n, msgs) ==
    IF Cardinality(n \cup msgs) <= MaxNet THEN n \cup msgs ELSE n


\* the deployments explored: the BS with both robots and no sensor node in
\* their range, and one robot alone with more sensor nodes than its
\* Sensor_DB has slots
app1_Deployments ==
    {{app1_BS_NODE_ID} \cup app1_Robots,
     {app1_ROBOT_NODE_ID_START} \cup app1_SensorIds}

app1_Init ==
    /\ variant = "app1"
    /\ nodes \in app1_Deployments
    /\ la_db = app1_init_la_db
    /\ robot_db = app1_init_robot_db
    /\ bs = [pc |-> "startup", total_covered_grids_global_bs |-> 0,
             robots_finished_current_phase |-> 0, events |-> 0,
             per_ac |-> [num |-> 0, den |-> 0]]
    /\ sensor = <<>>
    /\ robot = [r \in app1_Robots |-> app1_robot_init]
    /\ net = {}
    /\ dups = 0
    /\ out = <<>>
    /\ hist = <<>>

\* top of the robot loop: read the assignment from Robot_DB and LA_DB;
\* wait 5 s when there is none or the LA is processed, else start the local
\* phase (grids, empty Sensor_DB, move to the LA centre, broadcast Mp)
app1_robot_poll(r) ==
    /\ variant = "app1"
    /\ robot[r].pc = "idle"
    /\ LET la == app1_assigned_la_idx(robot_db, r)
       IN  IF la = -1 \/ la_db[la].num_covered_grids # 0
           THEN /\ robot' = [robot EXCEPT ![r].robot_current_la_id = la]
                /\ out' = <<>>
           ELSE /\ robot' = [robot EXCEPT ![r] =
                      [@ EXCEPT !.pc = "discovery",
                                !.robot_current_la_id = la,
                                !.robot_grid_db = app1_init_grid_db(la_db[la].center_coord),
                                !.robot_sensor_db = app1_empty_sensor_db,
                                !.robot_current_pos = la_db[la].center_coord]]
                /\ out' = <<[type |-> "Mp", robot_id |-> r,
                             robot_coord |-> la_db[la].center_coord]>>
    /\ UNCHANGED <<variant, sensor, nodes, la_db, robot_db, bs, net, dups, hist>>

\* what a step of the robot process leaves: its record and the messages sent
app1_robot_leaves(r, res) ==
    /\ robot' = [robot EXCEPT ![r] = res.rb]
    /\ out' = res.out
    /\ net' = IF app1_BS_NODE_ID \in nodes
              THEN Send(net, {[msg |-> res.out[i], first |-> -2] :
                                i \in {k \in DOMAIN res.out : res.out[k].type = "Robot_pM"}})
              ELSE net
    /\ UNCHANGED <<variant, sensor, nodes, la_db, robot_db, bs, dups, hist>>

\* the 2 s discovery timer expires: NO_P and the covered count are set and
\* the dispersion loop runs to its first wait
app1_robot_discovery_timer(r) ==
    /\ variant = "app1"
    /\ robot[r].pc = "discovery"
    /\ app1_robot_leaves(r,
          app1_dispersion_loop([robot[r] EXCEPT !.robot_no_p = app1_MAX_GRIDS_PER_LA,
                                                !.num_covered_grids_in_this_la = 0,
                                                !.visits = 0], r, 0))

\* the 0.5 s timer of the dispersion loop expires
app1_robot_timer(r) ==
    /\ variant = "app1"
    /\ robot[r].pc = "dispersion"
    /\ \E found \in app1_after_yield(robot[r].num_covered_grids_in_this_la) :
          app1_robot_leaves(r, app1_dispersion_loop(robot[r], r, found))

\* where the sensor nodes lie, in the order of their ids and over again: at
\* the centre of the first grid of the first LA, at a point within Rs/2 of
\* it, at the centre of its last grid
app1_SensorCoords ==
    LET g == app1_init_grid_db(app1_init_la_db[0].center_coord)
    IN  <<g[0].center_coord,
          Coord(g[0].center_coord.x + 1, g[0].center_coord.y),
          g[app1_MAX_GRIDS_PER_LA - 1].center_coord>>

app1_sensor_coord(id) ==
    app1_SensorCoords[((id - app1_SENSOR_NODE_ID_START) % Len(app1_SensorCoords)) + 1]

\* unicast_recv_robot: a Sensor_M reaches robot r
app1_unicast_recv_robot(r) ==
    /\ variant = "app1"
    /\ \E id \in app1_SensorIds \cap nodes, st \in {0, 1} :
          robot' = [robot EXCEPT ![r].robot_sensor_db =
                       app1_upsert_sensor(@, [sensor_id |-> id,
                                              sensor_coord |-> app1_sensor_coord(id),
                                              sensor_status |-> st])]
    /\ out' = <<>>
    /\ UNCHANGED <<variant, sensor, nodes, la_db, robot_db, bs, net, dups, hist>>

\* unicast_recv_bs: a Robot_pM in flight reaches the BS; the network may
\* deliver it again later (keep)
app1_unicast_recv_bs(e, keep) ==
    /\ variant = "app1"
    /\ e \in net
    /\ e.msg.type = "Robot_pM"
    /\ bs.robots_finished_current_phase < MaxCount
    /\ bs.events < MaxCount
    /\ keep => dups < MaxDup
    /\ LET res == app1_recv_report(la_db, robot_db, bs, e.msg)
           first == IF e.first = -2 THEN res.credited ELSE e.first
       IN  /\ la_db' = res.la_db
           /\ bs' = res.bs
           /\ net' = IF keep THEN (net \ {e}) \cup {[e EXCEPT !.first = first]}
                     ELSE net \ {e}
    /\ dups' = IF keep THEN dups + 1 ELSE dups
    /\ out' = <<>>
    /\ UNCHANGED <<variant, sensor, nodes, robot_db, robot, hist>>

\* the network loses a message
Lose(e) ==
    /\ e \in net
    /\ net' = net \ {e}
    /\ out' = <<>>
    /\ UNCHANGED <<variant, sensor, nodes, la_db, robot_db, bs, robot, dups, hist>>

\* the 5 s start-up timer of the BS expires: the global loop is entered
app1_bs_timer ==
    /\ variant = "app1"
    /\ app1_BS_NODE_ID \in nodes
    /\ bs.pc = "startup"
    /\ bs' = [bs EXCEPT !.pc = "wait", !.robots_finished_current_phase = 0]
    /\ out' = <<>>
    /\ UNCHANGED <<variant, sensor, nodes, la_db, robot_db, robot, net, dups, hist>>

\* a PROCESS_EVENT_CONTINUE reaches the BS process: in the global loop with
\* the counter at NUM_ROBOTS the robots are reassigned, or the run ends with
\* Per_AC when no LA is left; otherwise the event is consumed
app1_bs_continue ==
    /\ variant = "app1"
    /\ bs.events > 0
    /\ IF bs.pc = "wait" /\ bs.robots_finished_current_phase = app1_NUM_ROBOTS
       THEN IF app1_find_uncovered(la_db) = -1
            THEN /\ bs' = [bs EXCEPT !.events = @ - 1, !.pc = "done",
                                     !.per_ac = app1_Per_AC(bs)]
                 /\ robot_db' = robot_db
            ELSE /\ bs' = [bs EXCEPT !.events = @ - 1,
                                     !.robots_finished_current_phase = 0]
                 /\ robot_db' = app1_reassign(la_db, robot_db)
       ELSE /\ bs' = [bs EXCEPT !.events = @ - 1]
            /\ robot_db' = robot_db
    /\ out' = <<>>
    /\ UNCHANGED <<variant, sensor, nodes, la_db, robot, net, dups, hist>>

\* the steps of the robot nodes
app1_robot_Next ==
    \/ \E r \in app1_Robots \cap nodes : app1_robot_poll(r)
    \/ \E r \in app1_Robots \cap nodes : app1_robot_discovery_timer(r)
    \/ \E r \in app1_Robots \cap nodes : app1_robot_timer(r)
    \/ \E r \in app1_Robots \cap nodes : app1_unicast_recv_robot(r)

\* a robot out of reach of the base station, among the sensor nodes
app1_robot_Init == app1_Init /\ app1_BS_NODE_ID \notin nodes

app1_Next ==
    \/ app1_robot_Next
    \/ \E e \in net, keep \in BOOLEAN : app1_unicast_recv_bs(e, keep)
    \/ \E e \in net : Lose(e)
    \/ app1_bs_timer
    \/ app1_bs_continue

SpecApp1 == app1_Init /\ [][app1_Next]_vars

(***************************************************************************)
(* src/base-station.c (configured by project-conf.h of                     *)
(* src/disaster-wsn-deployment).  The target area is scaled down to one    *)
(* row of 3 location areas.  The energy counters are left out.             *)
(***************************************************************************)
top_MAX_LOCATION_AREAS == 20
top_MAX_ROBOTS == 2
top_ROBOT_PERCEPTION_RANGE == 100
top_SENSOR_PERCEPTION_RANGE == 50
top_TARGET_AREA_WIDTH == 300
top_TARGET_AREA_HEIGHT == 100

top_las_x == (top_TARGET_AREA_WIDTH \div top_ROBOT_PERCEPTION_RANGE) % 256
top_las_y == (top_TARGET_AREA_HEIGHT \div top_ROBOT_PERCEPTION_RANGE) % 256

\* initialize_la_db: the number of LAs (uint8_t, clamped)
top_num_location_areas ==
    Min((top_las_x * top_las_y) % 256, top_MAX_LOCATION_AREAS)

\* initialize_la_db: ids from 1, row-major, centre of each cell
top_initialize_la_db ==
    [i \in 0..(Min(top_las_x * top_las_y, top_MAX_LOCATION_AREAS) - 1) |->
        [la_id |-> i + 1,
         center_x |-> (i % top_las_x) * top_ROBOT_PERCEPTION_RANGE
                      + top_ROBOT_PERCEPTION_RANGE \div 2,
         center_y |-> (i \div top_las_x) * top_ROBOT_PERCEPTION_RANGE
                      + top_ROBOT_PERCEPTION_RANGE \div 2,
         no_grid |-> 0]]

top_grids_per_la ==
    ((top_ROBOT_PERCEPTION_RANGE \div top_SENSOR_PERCEPTION_RANGE)
     * (top_ROBOT_PERCEPTION_RANGE \div top_SENSOR_PERCEPTION_RANGE)) % 256

\* find_uncovered_la: index of the first LA whose no_grid is 0, or -1
top_find_uncovered_la(ldb) ==
    FirstIndex(top_num_location_areas, LAMBDA i : ldb[i].no_grid = 0)

\* assign_robot_to_la
top_assign_robot_to_la(rdb, ldb, robot_id, la_index) ==
    IF robot_id < top_MAX_ROBOTS
    THEN [rdb EXCEPT ![robot_id] = [robot_id |-> robot_id,
                                    assigned_la_id |-> ldb[la_index].la_id]]
    ELSE rdb

\* update_la_coverage: the LA the robot is assigned to now takes the count
top_update_la_coverage(ldb, rdb, robot_id, covered_grids) ==
    LET assigned_la_id == rdb[robot_id].assigned_la_id
        i == FirstIndex(top_num_location_areas, LAMBDA k : ldb[k].la_id = assigned_la_id)
    IN  IF i = -1 THEN ldb ELSE [ldb EXCEPT ![i].no_grid = covered_grids]

\* calculate_area_coverage_percentage, as the fraction num/den
top_calculate_area_coverage_percentage(ldb) ==
    LET total_grids == (top_num_location_areas * top_grids_per_la) % 65536
        covered_grids ==
            SumSeq([k \in 1..top_num_location_areas |-> ldb[k - 1].no_grid]) % 65536
    IN  IF total_grids > 0 THEN [num |-> covered_grids * 100, den |-> total_grids]
        ELSE [num |-> 0, den |-> 1]

top_assignment_msg(ldb, robot_id, la_index) ==
    [type |-> "robot_assignment", target_robot_id |-> robot_id,
     la_assignment |-> ldb[la_index]]

\* deploy_initial_robots: robot 0 to the first LA, robot 1 to the last
top_deploy_initial_robots(ldb) ==
    LET none == [r \in 0..(top_MAX_ROBOTS - 1) |-> [robot_id |-> 0, assigned_la_id |-> 0]]
        r0 == top_assign_robot_to_la(none, ldb, 0, 0)
        last == top_num_location_areas - 1
    IN  IF top_num_location_areas > 1
        THEN [robot_db |-> top_assign_robot_to_la(r0, ldb, 1, last),
              out |-> <<top_assignment_msg(ldb, 0, 0), top_assignment_msg(ldb, 1, last)>>,
              active_robots |-> 2]
        ELSE [robot_db |-> r0, out |-> <<top_assignment_msg(ldb, 0, 0)>>,
              active_robots |-> 1]

top_bs_Init ==
    /\ variant = "top_bs"
    /\ nodes = {}
    /\ la_db = top_initialize_la_db
    /\ LET d == top_deploy_initial_robots(top_initialize_la_db)
       IN  /\ robot_db = d.robot_db
           /\ out = d.out
           /\ bs = [num_location_areas |-> top_num_location_areas,
                    active_robots |-> d.active_robots,
                    coverage_percentage |-> [num |-> 0, den |-> 0]]
    /\ sensor = <<>>
    /\ robot = <<>>
    /\ net = {}
    /\ dups = 0
    /\ hist = <<>>

\* udp_rx_callback of the BS applied to a robot_message_t
top_bs_udp_rx_callback(robot_id, covered_grids) ==
    /\ variant = "top_bs"
    /\ LET ldb == top_update_la_coverage(la_db, robot_db, robot_id, covered_grids)
           next_la == top_find_uncovered_la(ldb)
       IN  /\ la_db' = ldb
           /\ IF next_la >= 0
              THEN /\ robot_db' = top_assign_robot_to_la(robot_db, ldb, robot_id, next_la)
                   /\ out' = <<top_assignment_msg(ldb, robot_id, next_la)>>
                   /\ bs' = bs
              ELSE /\ robot_db' = robot_db
                   /\ out' = <<>>
                   /\ bs' = [bs EXCEPT !.coverage_percentage =
                                top_calculate_area_coverage_percentage(ldb)]
    /\ UNCHANGED <<variant, sensor, nodes, robot, net, dups, hist>>

\* the reports robots send: their id and a count of covered grids
top_bs_Next ==
    \E robot_id \in 0..(top_MAX_ROBOTS - 1), covered_grids \in 0..top_grids_per_la :
        top_bs_udp_rx_callback(robot_id, covered_grids)

SpecTopBS == top_bs_Init /\ [][top_bs_Next]_vars

(***************************************************************************)
(* src/mobile-robot.c (same project-conf.h).  One robot (node 2, robot id  *)
(* 0); assignments and sensor replies come from its environment.  The      *)
(* energy counters and the energy timer are left out.                      *)
(***************************************************************************)
top_MAX_SENSORS_PER_AREA == 50
top_ROBOT_STOCK_CAPACITY == 3
top_ROBOT_INITIAL_STOCK == 2
\* replies that reach the robot within one discovery window
top_MaxReplies == 2

top_ROBOT_PHASE_IDLE == 0
top_ROBOT_PHASE_TOPOLOGY_DISCOVERY == 1
top_ROBOT_PHASE_DISPERSION == 2
top_ROBOT_PHASE_REPORTING == 3

u8(n) == n % 256

\* initialize_grid_db: the Grid_DB of the LA centred at (cx, cy)
top_initialize_grid_db(cx, cy) ==
    LET grid_size == u8(top_ROBOT_PERCEPTION_RANGE \div top_SENSOR_PERCEPTION_RANGE)
        num_grids == u8(grid_size * grid_size)
        start_x == cx - top_ROBOT_PERCEPTION_RANGE \div 2
        start_y == cy - top_ROBOT_PERCEPTION_RANGE \div 2
    IN  [g \in 0..(num_grids - 1) |->
            [grid_id |-> g + 1,
             center_x |-> start_x + (g % grid_size) * top_SENSOR_PERCEPTION_RANGE
                          + top_SENSOR_PERCEPTION_RANGE \div 2,
             center_y |-> start_y + (g \div grid_size) * top_SENSOR_PERCEPTION_RANGE
                          + top_SENSOR_PERCEPTION_RANGE \div 2,
             grid_status |-> 0]]

\* find_uncovered_grid: index of the first uncovered grid, or -1
top_find_uncovered_grid(rb) ==
    FirstIndex(rb.num_grids, LAMBDA i : rb.grid_db[i].grid_status = 0)

\* find_nearest_sensor_to_grid: index (from 0) of the idle sensor nearest to
\* the grid centre, the first one on a tie, or -1
top_find_nearest_sensor_to_grid(rb, grid_index) ==
    LET g == Coord(rb.grid_db[grid_index].center_x, rb.grid_db[grid_index].center_y)
        d(i) == dist2(Coord(rb.sensor_db[i + 1].x_coord, rb.sensor_db[i + 1].y_coord), g)
        I == {i \in 0..(rb.num_sensors - 1) :
                 rb.sensor_db[i + 1].sensor_status = 0 /\ d(i) < 10000 * 10000}
    IN  IF I = {} THEN -1
        ELSE CHOOSE i \in I : \A j \in I : d(i) < d(j) \/ (d(i) = d(j) /\ i <= j)

\* start_topology_discovery: move to the LA centre, build Grid_DB, NO_P,
\* broadcast the discovery message, arm the discovery timer
top_start_topology_discovery(rb) ==
    LET gdb == top_initialize_grid_db(rb.la_center_x, rb.la_center_y)
        n == Cardinality(DOMAIN gdb)
    IN  [rb |-> [rb EXCEPT !.current_phase = top_ROBOT_PHASE_TOPOLOGY_DISCOVERY,
                           !.num_sensors = 0,
                           !.sensor_db = <<>>,
                           !.current_x = rb.la_center_x,
                           !.current_y = rb.la_center_y,
                           !.grid_db = gdb,
                           !.num_grids = n,
                           !.no_p = n,
                           !.discovery_timer = TRUE],
         out |-> <<[type |-> "robot_discovery", robot_id |-> rb.robot_id]>>]

\* execute_dispersion_phase
top_execute_dispersion_phase(rb) ==
    [rb EXCEPT !.current_phase = top_ROBOT_PHASE_DISPERSION,
               !.current_grid_index = 0,
               !.no_p = rb.num_grids,
               !.visits = 0,
               !.phase_timer = TRUE]

\* deploy_or_relocate_sensor_to_grid: the stock is reduced here when a unit
\* of the stock is deployed; the command is sent and the grid marked covered
top_deploy_or_relocate_sensor_to_grid(rb, sensor_index, grid_index, deploy_from_stock) ==
    LET cmd == [type |-> "command",
                target_x |-> rb.grid_db[grid_index].center_x,
                target_y |-> rb.grid_db[grid_index].center_y,
                deploy_from_stock |-> deploy_from_stock]
    IN  IF deploy_from_stock = 0 /\ ~(sensor_index < rb.num_sensors)
        THEN [rb |-> rb, out |-> <<>>]
        ELSE [rb |-> [rb EXCEPT
                        !.stock_rs = IF deploy_from_stock # 0 THEN u8(@ - 1) ELSE @,
                        !.grid_db = [@ EXCEPT ![grid_index].grid_status = 1]],
              out |-> <<cmd>>]

\* the collection loop of Case 1 and Case 3: sensors of the grid are marked
\* collected (status 2) while the stock is below the capacity; skip is the
\* index Case 3 relocated (-1 in Case 1)
RECURSIVE top_collect(_, _, _)
top_collect(rb, idx, skip) ==
    IF idx = <<>> \/ ~(rb.stock_rs < top_ROBOT_STOCK_CAPACITY) THEN rb
    ELSE IF Head(idx) = skip THEN top_collect(rb, Tail(idx), skip)
    ELSE top_collect([rb EXCEPT !.sensor_db[Head(idx) + 1].sensor_status = 2,
                                !.stock_rs = u8(@ + 1)],
                     Tail(idx), skip)

\* indices (from 0) of the idle sensors within SENSOR_PERCEPTION_RANGE of the
\* robot, in table order: grid_sensor_indices of process_grid_deployment
top_grid_sensor_indices(rb) ==
    LET near(i) ==
            /\ rb.sensor_db[i + 1].sensor_status = 0
            /\ dist2(Coord(rb.sensor_db[i + 1].x_coord, rb.sensor_db[i + 1].y_coord),
                     Coord(rb.current_x, rb.current_y))
               <= top_SENSOR_PERCEPTION_RANGE * top_SENSOR_PERCEPTION_RANGE
    IN  SelectSeq(Indices(rb.num_sensors), near)

\* the four cases of process_grid_deployment at the grid the robot stands on
top_apply_case(rb, grid_index) ==
    LET idx == top_grid_sensor_indices(rb)
        sensors_in_grid == Len(idx)
    IN  IF rb.stock_rs > 0 /\ sensors_in_grid > 0
        THEN LET d == top_deploy_or_relocate_sensor_to_grid(rb, 0, grid_index, 1)
                 c == top_collect([d.rb EXCEPT !.stock_rs = u8(@ - 1)], idx, -1)
             IN  [rb |-> [c EXCEPT !.grid_db[grid_index].grid_status = 1,
                                   !.last_case = 1],
                  out |-> d.out]
        ELSE IF rb.stock_rs > 0 /\ sensors_in_grid = 0
        THEN LET d == top_deploy_or_relocate_sensor_to_grid(rb, 0, grid_index, 1)
             IN  [rb |-> [d.rb EXCEPT !.stock_rs = u8(@ - 1),
                                      !.grid_db[grid_index].grid_status = 1,
                                      !.last_case = 2],
                  out |-> d.out]
        ELSE IF rb.stock_rs = 0 /\ sensors_in_grid > 0
        THEN LET nearest_sensor == top_find_nearest_sensor_to_grid(rb, grid_index)
             IN  IF nearest_sensor >= 0
                 THEN LET d == top_deploy_or_relocate_sensor_to_grid(rb, nearest_sensor,
                                                                      grid_index, 0)
                          a == [d.rb EXCEPT !.sensor_db[nearest_sensor + 1].sensor_status = 1]
                          c == top_collect(a, idx, nearest_sensor)
                      IN  [rb |-> [c EXCEPT !.grid_db[grid_index].grid_status = 1,
                                            !.last_case = 3],
                           out |-> d.out]
                 ELSE [rb |-> [rb EXCEPT !.last_case = 3], out |-> <<>>]
        ELSE [rb |-> [rb EXCEPT !.last_case = 4], out |-> <<>>]

\* process_grid_deployment as it would be if a visit on which Case 4 applies
\* cost no move
top_process_grid_deployment_free_case4(rb, grid_index) ==
    IF rb.no_p <= 0 \/ grid_index >= rb.num_grids
    THEN [rb |-> [rb EXCEPT !.current_phase = top_ROBOT_PHASE_REPORTING,
                            !.phase_timer = TRUE],
          out |-> <<>>]
    ELSE LET moved == [rb EXCEPT !.current_x = rb.grid_db[grid_index].center_x,
                                 !.current_y = rb.grid_db[grid_index].center_y,
                                 !.visits = @ + 1]
             res == top_apply_case(moved, grid_index)
             spent == IF res.rb.last_case = 4 THEN res.rb
                      ELSE [res.rb EXCEPT !.no_p = u8(@ - 1)]
             next_grid == top_find_uncovered_grid(spent)
         IN  IF next_grid >= 0 /\ spent.no_p > 0
             THEN [rb |-> [spent EXCEPT !.current_grid_index = next_grid,
                                        !.phase_timer = TRUE],
                   out |-> res.out]
             ELSE [rb |-> [spent EXCEPT !.current_phase = top_ROBOT_PHASE_REPORTING,
                                        !.phase_timer = TRUE],
                   out |-> res.out]

\* process_grid_deployment
top_process_grid_deployment(rb, grid_index) ==
    IF rb.no_p <= 0 \/ grid_index >= rb.num_grids
    THEN [rb |-> [rb EXCEPT !.current_phase = top_ROBOT_PHASE_REPORTING,
                            !.phase_timer = TRUE],
          out |-> <<>>]
    ELSE LET moved == [rb EXCEPT !.current_x = rb.grid_db[grid_index].center_x,
                                 !.current_y = rb.grid_db[grid_index].center_y,
                                 !.no_p = u8(@ - 1),
                                 !.visits = @ + 1]
             res == top_apply_case(moved, grid_index)
             next_grid == top_find_uncovered_grid(res.rb)
         IN  IF next_grid >= 0 /\ res.rb.no_p > 0
             THEN [rb |-> [res.rb EXCEPT !.current_grid_index = next_grid,
                                         !.phase_timer = TRUE],
                   out |-> res.out]
             ELSE [rb |-> [res.rb EXCEPT !.current_phase = top_ROBOT_PHASE_REPORTING,
                                         !.phase_timer = TRUE],
                   out |-> res.out]

\* send_coverage_report: the report goes out when the BS address is known;
\* NO_P is reset, the tables are cleared, the robot is idle again
top_send_coverage_report(rb) ==
    LET covered_grids ==
            u8(Cardinality({i \in 0..(rb.num_grids - 1) : rb.grid_db[i].grid_status = 1}))
    IN  [rb |-> [rb EXCEPT !.no_p = rb.num_grids,
                           !.current_phase = top_ROBOT_PHASE_IDLE,
                           !.grid_db = <<>>,
                           !.sensor_db = <<>>,
                           !.num_grids = 0,
                           !.num_sensors = 0,
                           !.last_case = 0],
         out |-> IF rb.bs_reachable = 1
                 THEN <<[type |-> "robot_report", robot_id |-> rb.robot_id,
                         covered_grids |-> covered_grids]>>
                 ELSE <<>>]

\* the robot after PROCESS_BEGIN up to its first wait
top_robot_init ==
    [robot_id |-> 0,
     current_x |-> top_TARGET_AREA_WIDTH \div 2,
     current_y |-> top_TARGET_AREA_HEIGHT \div 2,
     current_phase |-> top_ROBOT_PHASE_IDLE,
     assigned_la_id |-> 0, la_center_x |-> 0, la_center_y |-> 0,
     grid_db |-> <<>>, sensor_db |-> <<>>, num_grids |-> 0, num_sensors |-> 0,
     stock_rs |-> top_ROBOT_INITIAL_STOCK, no_p |-> 0, current_grid_index |-> 0,
     bs_reachable |-> 0,
     phase_timer |-> FALSE, discovery_timer |-> FALSE,
     visits |-> 0, last_case |-> 0]

top_robot_Init ==
    /\ variant = "top_robot"
    /\ nodes = {2}
    /\ la_db = top_initialize_la_db
    /\ robot_db = <<>>
    /\ bs = <<>>
    /\ sensor = <<>>
    /\ robot = [r \in {0} |-> top_robot_init]
    /\ net = {}
    /\ dups = 0
    /\ out = <<>>
    /\ hist = <<>>

\* udp_rx_callback of the robot applied to a robot_assignment_msg_t
top_robot_rx_assignment(r, m) ==
    /\ variant = "top_robot"
    /\ IF m.target_robot_id = robot[r].robot_id
          /\ robot[r].current_phase = top_ROBOT_PHASE_IDLE
       THEN LET res == top_start_topology_discovery(
                          [robot[r] EXCEPT !.assigned_la_id = m.la_assignment.la_id,
                                           !.la_center_x = m.la_assignment.center_x,
                                           !.la_center_y = m.la_assignment.center_y,
                                           !.bs_reachable = 1])
            IN  /\ robot' = [robot EXCEPT ![r] = res.rb]
                /\ out' = res.out
       ELSE /\ robot' = robot
            /\ out' = <<>>
    /\ UNCHANGED <<variant, sensor, nodes, la_db, robot_db, bs, net, dups, hist>>

\* udp_rx_callback of the robot applied to a sensor_reply_msg_t
top_robot_rx_sensor_reply(r, m) ==
    /\ variant = "top_robot"
    /\ robot[r].num_sensors < top_MaxReplies
    /\ LET rb == robot[r]
           within_la ==
               /\ m.x_coord >= rb.la_center_x - top_ROBOT_PERCEPTION_RANGE \div 2
               /\ m.x_coord <= rb.la_center_x + top_ROBOT_PERCEPTION_RANGE \div 2
               /\ m.y_coord >= rb.la_center_y - top_ROBOT_PERCEPTION_RANGE \div 2
               /\ m.y_coord <= rb.la_center_y + top_ROBOT_PERCEPTION_RANGE \div 2
           in_range ==
               dist2(Coord(m.x_coord, m.y_coord), Coord(rb.current_x, rb.current_y))
               <= top_ROBOT_PERCEPTION_RANGE * top_ROBOT_PERCEPTION_RANGE
       IN  IF /\ rb.current_phase = top_ROBOT_PHASE_TOPOLOGY_DISCOVERY
              /\ in_range /\ within_la
              /\ rb.num_sensors < top_MAX_SENSORS_PER_AREA
           THEN robot' = [robot EXCEPT ![r].sensor_db =
                             Append(@, [sensor_id |-> m.sensor_id, x_coord |-> m.x_coord,
                                        y_coord |-> m.y_coord,
                                        sensor_status |-> m.sensor_status]),
                                       ![r].num_sensors = u8(@ + 1)]
           ELSE robot' = robot
    /\ out' = <<>>
    /\ UNCHANGED <<variant, sensor, nodes, la_db, robot_db, bs, net, dups, hist>>

\* PROCESS_EVENT_TIMER of phase_timer
top_robot_phase_timer(r) ==
    /\ variant = "top_robot"
    /\ robot[r].phase_timer
    /\ LET rb == [robot[r] EXCEPT !.phase_timer = FALSE]
           res == IF rb.current_phase = top_ROBOT_PHASE_DISPERSION
                  THEN top_process_grid_deployment(rb, rb.current_grid_index)
                  ELSE IF rb.current_phase = top_ROBOT_PHASE_REPORTING
                  THEN top_send_coverage_report(rb)
                  ELSE [rb |-> rb, out |-> <<>>]
       IN  /\ robot' = [robot EXCEPT ![r] = res.rb]
           /\ out' = res.out
    /\ UNCHANGED <<variant, sensor, nodes, la_db, robot_db, bs, net, dups, hist>>

\* PROCESS_EVENT_TIMER of discovery_timer
top_robot_discovery_timer(r) ==
    /\ variant = "top_robot"
    /\ robot[r].discovery_timer
    /\ LET rb == [robot[r] EXCEPT !.discovery_timer = FALSE]
       IN  robot' = [robot EXCEPT ![r] =
                        IF rb.current_phase = top_ROBOT_PHASE_TOPOLOGY_DISCOVERY
                        THEN top_execute_dispersion_phase(rb) ELSE rb]
    /\ out' = <<>>
    /\ UNCHANGED <<variant, sensor, nodes, la_db, robot_db, bs, net, dups, hist>>

\* the assignments the BS sends: any LA of its table, to either robot
top_Assignments ==
    {top_assignment_msg(top_initialize_la_db, t, i) :
        t \in 0..(top_MAX_ROBOTS - 1), i \in DOMAIN top_initialize_la_db}

\* the replies of the sensor nodes: sensor 1 at the centre of the first grid
\* of the first LA, sensor 2 next to it, sensor 3 at the centre of the last
\* grid, each idle or active
top_SensorReplies ==
    LET g == top_initialize_grid_db(top_initialize_la_db[0].center_x,
                                    top_initialize_la_db[0].center_y)
        last == Cardinality(DOMAIN g) - 1
        at == <<Coord(g[0].center_x, g[0].center_y),
                Coord(g[0].center_x + 1, g[0].center_y),
                Coord(g[last].center_x, g[last].center_y)>>
    IN  {[sensor_id |-> id, x_coord |-> at[id].x, y_coord |-> at[id].y,
          sensor_status |-> st] : id \in DOMAIN at, st \in {0, 1}}

top_robot_Next ==
    \/ \E m \in top_Assignments : top_robot_rx_assignment(0, m)
    \/ \E m \in top_SensorReplies : top_robot_rx_sensor_reply(0, m)
    \/ top_robot_phase_timer(0)
    \/ top_robot_discovery_timer(0)

SpecTopRobot == top_robot_Init /\ [][top_robot_Next]_vars

(***************************************************************************)
(* wsn: src/src/mobile-robot.c, with the assignments of                    *)
(* src/src/base-station.c.  The local phase of this robot runs to its end  *)
(* inside one event of its process.                                        *)
(***************************************************************************)
wsn_WSN_MSG_TYPE_ROBOT_BROADCAST == 1
wsn_WSN_MSG_TYPE_SENSOR_REPLY == 2
wsn_WSN_MSG_TYPE_ROBOT_REPORT == 3
wsn_WSN_MSG_TYPE_LA_ASSIGNMENT == 4
wsn_TARGET_AREA_SIZE == 600
wsn_ROBOT_PERCEPTION_RANGE == 200
wsn_SENSOR_PERCEPTION_RANGE == 50
wsn_ROBOT_CAPACITY == 3
wsn_INITIAL_STOCK == 2
wsn_MAX_SENSORS == 20
wsn_MAX_LOCATION_AREAS == 10
wsn_MAX_GRIDS_PER_LA == 16
wsn_NO_LA == wsn_TARGET_AREA_SIZE \div wsn_ROBOT_PERCEPTION_RANGE
wsn_NO_G == wsn_ROBOT_PERCEPTION_RANGE \div wsn_SENSOR_PERCEPTION_RANGE

\* assignments the base station decides in a run
wsn_MaxDecided == 2
\* events the process of the robot has pending at most
wsn_MaxEvents == 2
\* the generator behind random_rand(): its period, and the seeds of a run
wsn_RandPeriod == 16
wsn_Seeds == {0, 9}

\* (uint8_t)sqrt(n)
isqrt(n) == CHOOSE k \in 0..n : k * k <= n /\ (k + 1) * (k + 1) > n

\* sizeof of the message structures, by which the callbacks tell them apart
wsn_sizeof(m) ==
    IF m.msg_type = wsn_WSN_MSG_TYPE_ROBOT_BROADCAST THEN 2
    ELSE IF m.msg_type = wsn_WSN_MSG_TYPE_ROBOT_REPORT THEN 3
    ELSE 8

\* init_la_db of the base station: the centres of the location areas
wsn_init_la_db ==
    LET R == wsn_ROBOT_PERCEPTION_RANGE
        num_las == Min(wsn_NO_LA, wsn_MAX_LOCATION_AREAS)
        per_row == (wsn_TARGET_AREA_SIZE - (R \div 2) + R - 1) \div R
        la_count == Min(num_las, per_row * per_row)
    IN  [i \in 0..(la_count - 1) |->
            [la_id |-> i + 1,
             center_x |-> R \div 2 + ((i % per_row) * R),
             center_y |-> R \div 2 + ((i \div per_row) * R),
             no_grid |-> 0]]

\* send_la_assignment: the message, and the copies of it that reach the
\* robot node me (5 by multicast, 3 more to the robot addressed)
wsn_la_assignment_msg(ldb, robot_id, i) ==
    [msg_type |-> wsn_WSN_MSG_TYPE_LA_ASSIGNMENT, robot_id |-> robot_id,
     la_id |-> ldb[i].la_id, center_x |-> ldb[i].center_x,
     center_y |-> ldb[i].center_y]

wsn_send_la_assignment(ldb, robot_id, i, me) ==
    [msg |-> wsn_la_assignment_msg(ldb, robot_id, i),
     left |-> IF robot_id = me /\ robot_id \in {2, 3} THEN 5 + 3 ELSE 5]

\* random_rand(): the generator steps, the value is that of the new state
wsn_rand_step(rb) == [rb EXCEPT !.seed = ((5 * @) + 3) % wsn_RandPeriod]

wsn_rand_value(rb) == 13 * rb.seed

\* init_grid_db
wsn_init_grid_db(la_center) ==
    LET start_x == la_center.x - (wsn_ROBOT_PERCEPTION_RANGE \div 2)
        start_y == la_center.y - (wsn_ROBOT_PERCEPTION_RANGE \div 2)
        grid_size == wsn_SENSOR_PERCEPTION_RANGE
        num_grids == Min(wsn_NO_G, wsn_MAX_GRIDS_PER_LA)
        grids_per_row == isqrt(num_grids)
        grid_count == Min(num_grids, grids_per_row * grids_per_row)
    IN  [i \in 0..(grid_count - 1) |->
            [grid_id |-> i + 1,
             center_x |-> start_x + ((i % grids_per_row) * grid_size) + (grid_size \div 2),
             center_y |-> start_y + ((i \div grids_per_row) * grid_size) + (grid_size \div 2),
             grid_status |-> 0]]

wsn_grid_center(rb, grid_idx) ==
    Coord(rb.grid_db[grid_idx].center_x, rb.grid_db[grid_idx].center_y)

wsn_sensor_pos(rb, i) == Coord(rb.sensor_db[i].x_coord, rb.sensor_db[i].y_coord)

\* find_nearest_uncovered_grid: the first of the nearest, grid 0 when none
wsn_find_nearest_uncovered_grid(rb) ==
    LET open == {i \in DOMAIN rb.grid_db : rb.grid_db[i].grid_status = 0}
        d(i) == dist2(rb.current_position, wsn_grid_center(rb, i))
    IN  IF open = {} THEN 0
        ELSE CHOOSE i \in open :
                 \A j \in open : d(i) < d(j) \/ (d(i) = d(j) /\ i <= j)

\* count_sensors_in_grid: the records within sensor range of the centre,
\* or, when there is none, 1..3 sensors with chance 30 in 100
wsn_count_sensors_in_grid(rb, grid_idx) ==
    LET sensor_count ==
            Cardinality({i \in 1..rb.num_sensors :
                dist2(wsn_grid_center(rb, grid_idx), wsn_sensor_pos(rb, i))
                    <= wsn_SENSOR_PERCEPTION_RANGE * wsn_SENSOR_PERCEPTION_RANGE})
        r1 == wsn_rand_step(rb)
        r2 == wsn_rand_step(r1)
    IN  IF sensor_count # 0 THEN [rb |-> rb, count |-> u8(sensor_count)]
        ELSE IF wsn_rand_value(r1) % 100 < 30
             THEN [rb |-> r2, count |-> 1 + (wsn_rand_value(r2) % 3)]
             ELSE [rb |-> r1, count |-> 0]

\* topology_discovery_phase, the loop that fills Sensor_DB
RECURSIVE wsn_discover(_, _, _, _)
wsn_discover(rb, i, discovered_sensors, la_center) ==
    IF i < discovered_sensors /\ i < wsn_MAX_SENSORS
    THEN LET rx == wsn_rand_step(rb)
             ry == wsn_rand_step(rx)
             rec == [sensor_id |-> i + 1,
                     x_coord |-> la_center.x
                                 + ((wsn_rand_value(rx) % wsn_ROBOT_PERCEPTION_RANGE)
                                    - (wsn_ROBOT_PERCEPTION_RANGE \div 2)),
                     y_coord |-> la_center.y
                                 + ((wsn_rand_value(ry) % wsn_ROBOT_PERCEPTION_RANGE)
                                    - (wsn_ROBOT_PERCEPTION_RANGE \div 2)),
                     sensor_status |-> 0]
         IN  wsn_discover([ry EXCEPT !.sensor_db = Append(@, rec),
                                     !.num_sensors = u8(@ + 1)],
                          i + 1, discovered_sensors, la_center)
    ELSE rb

\* topology_discovery_phase: the robot moves to the centre, broadcasts and
\* fills Sensor_DB with 5..10 sensors at random places of the LA
wsn_topology_discovery_phase(rb, la_center) ==
    LET r0 == wsn_rand_step([rb EXCEPT !.current_position = la_center,
                                       !.sensor_db = <<>>,
                                       !.num_sensors = 0])
        discovered_sensors == u8(5 + (wsn_rand_value(r0) % 6))
    IN  wsn_discover(r0, 0, discovered_sensors, la_center)

\* the sensors collected by "while (extra_sensors > 0 && stock_rs < ROBOT_CAPACITY)"
wsn_collect(stock_rs, extra_sensors) ==
    IF stock_rs < wsn_ROBOT_CAPACITY
    THEN Min(stock_rs + extra_sensors, wsn_ROBOT_CAPACITY)
    ELSE stock_rs

\* the record of a sensor placed from the stock at the centre of a grid
wsn_place_from_stock(rb, grid_idx) ==
    [rb EXCEPT !.sensor_db =
                   Append(@, [sensor_id |-> u8(100 + rb.num_sensors),
                              x_coord |-> rb.grid_db[grid_idx].center_x,
                              y_coord |-> rb.grid_db[grid_idx].center_y,
                              sensor_status |-> 1]),
               !.num_sensors = u8(@ + 1),
               !.stock_rs = @ - 1]

\* dispersion_case1
wsn_dispersion_case1(rb, grid_idx) ==
    IF rb.stock_rs > 0
    THEN LET c == wsn_count_sensors_in_grid(wsn_place_from_stock(rb, grid_idx), grid_idx)
         IN  [c.rb EXCEPT !.stock_rs = wsn_collect(@, c.count),
                          !.grid_db[grid_idx].grid_status = 1]
    ELSE rb

\* dispersion_case2
wsn_dispersion_case2(rb, grid_idx) ==
    IF rb.stock_rs > 0
    THEN [wsn_place_from_stock(rb, grid_idx) EXCEPT !.grid_db[grid_idx].grid_status = 1]
    ELSE rb

\* dispersion_case3: the closest idle sensor within the range of the robot
\* is moved to the centre and activated, the others are collected
wsn_dispersion_case3(rb, grid_idx) ==
    LET d(i) == dist2(wsn_grid_center(rb, grid_idx), wsn_sensor_pos(rb, i))
        idle == {i \in 1..rb.num_sensors :
                    /\ rb.sensor_db[i].sensor_status = 0
                    /\ d(i) <= wsn_ROBOT_PERCEPTION_RANGE * wsn_ROBOT_PERCEPTION_RANGE}
    IN  IF idle # {}
        THEN LET closest_sensor ==
                     CHOOSE i \in idle :
                         \A j \in idle : d(i) < d(j) \/ (d(i) = d(j) /\ i <= j)
                 moved == [rb EXCEPT
                              !.sensor_db[closest_sensor].x_coord =
                                  rb.grid_db[grid_idx].center_x,
                              !.sensor_db[closest_sensor].y_coord =
                                  rb.grid_db[grid_idx].center_y,
                              !.sensor_db[closest_sensor].sensor_status = 1]
                 c == wsn_count_sensors_in_grid(moved, grid_idx)
             IN  [c.rb EXCEPT !.stock_rs = wsn_collect(@, u8(c.count - 1)),
                              !.grid_db[grid_idx].grid_status = 1]
        ELSE rb

\* dispersion_phase, one turn of "while (no_p > 0)" and the turns after it
RECURSIVE wsn_dispersion_loop(_, _)
wsn_dispersion_loop(rb, current_grid) ==
    IF rb.no_p > 0
    THEN LET at == [rb EXCEPT !.current_position = wsn_grid_center(rb, current_grid)]
             c == wsn_count_sensors_in_grid(at, current_grid)
             robot_has_sensors == c.rb.stock_rs > 0
             grid_has_sensors == c.count > 0
             done == IF robot_has_sensors /\ grid_has_sensors
                     THEN wsn_dispersion_case1(c.rb, current_grid)
                     ELSE IF robot_has_sensors
                     THEN wsn_dispersion_case2(c.rb, current_grid)
                     ELSE IF grid_has_sensors
                     THEN wsn_dispersion_case3(c.rb, current_grid)
                     ELSE c.rb
             next == [done EXCEPT !.no_p = @ - 1]
         IN  wsn_dispersion_loop(next,
                                 IF next.no_p > 0
                                 THEN wsn_find_nearest_uncovered_grid(next)
                                 ELSE current_grid)
    ELSE rb

\* send_report_to_bs: the report, sent three times
wsn_report_msg(rb) ==
    [msg_type |-> wsn_WSN_MSG_TYPE_ROBOT_REPORT, robot_id |-> rb.robot_id,
     covered_grids |->
         u8(Cardinality({i \in DOMAIN rb.grid_db : rb.grid_db[i].grid_status = 1}))]

wsn_send_report_to_bs(rb) ==
    [rb |-> [rb EXCEPT !.pktbuf = wsn_report_msg(rb)],
     out |-> [attempts \in 1..3 |-> wsn_report_msg(rb)]]

\* execute_local_phase, called by handle_la_assignment
wsn_execute_local_phase(rb, la_id, la_center) ==
    LET g == wsn_init_grid_db(la_center)
        r1 == [rb EXCEPT !.current_la_id = la_id,
                         !.grid_db = g,
                         !.num_grids = Cardinality(DOMAIN g)]
        r2 == wsn_topology_discovery_phase(r1, la_center)
        r3 == wsn_dispersion_loop([r2 EXCEPT !.no_p = r2.num_grids], 0)
        rep == wsn_send_report_to_bs(r3)
    IN  [rb |-> [rep.rb EXCEPT !.no_p = r3.num_grids, !.local_phase_active = FALSE],
         out |-> <<[msg_type |-> wsn_WSN_MSG_TYPE_ROBOT_BROADCAST,
                    robot_id |-> rb.robot_id]>> \o rep.out]

\* the robot of node id at its first wait, its generator seeded with seed
wsn_robot_init(id, seed) ==
    [robot_id |-> id,
     current_la_id |-> 0,
     current_position |-> IF id = 2 THEN Coord(433, 531) ELSE Coord(500, 500),
     stock_rs |-> wsn_INITIAL_STOCK,
     no_p |-> 0,
     local_phase_active |-> FALSE,
     assignment_received |-> FALSE,
     pending_assignment |-> <<>>,
     grid_db |-> <<>>, sensor_db |-> <<>>, num_grids |-> 0, num_sensors |-> 0,
     pc |-> "startup",
     events |-> 0,
     pktbuf |-> <<>>,
     seed |-> seed]

wsn_robot_Init ==
    /\ variant = "wsn_robot"
    /\ nodes = {2}
    /\ la_db = wsn_init_la_db
    /\ robot_db = <<>>
    /\ bs = <<>>
    /\ sensor = <<>>
    /\ \E seed \in wsn_Seeds : robot = [r \in {2} |-> wsn_robot_init(r, seed)]
    /\ net = {}
    /\ dups = 0
    /\ out = <<>>
    /\ hist = [sent |-> 0, decided |-> 0, phases |-> 0]

\* the base station decides that robot_id works on the LA at index i and
\* sends the assignment (send_la_assignment)
wsn_bs_send_la_assignment(robot_id, i) ==
    /\ variant = "wsn_robot"
    /\ net = {}
    /\ hist.sent < wsn_MaxDecided
    /\ net' = {wsn_send_la_assignment(la_db, robot_id, i, 2)}
    /\ hist' = [hist EXCEPT !.sent = @ + 1,
                            !.decided = IF robot_id = 2 THEN @ + 1 ELSE @]
    /\ out' = <<>>
    /\ UNCHANGED <<variant, sensor, nodes, la_db, robot_db, bs, robot, dups>>

\* udp_rx_callback of the robot.  The packet lies in the buffer of the
\* stack, and the event posted to the process carries a pointer to it.
wsn_udp_rx_callback(rb, m) ==
    LET got == [rb EXCEPT !.pktbuf = m]
    IN  IF /\ wsn_sizeof(m) = 8
           /\ m.msg_type = wsn_WSN_MSG_TYPE_LA_ASSIGNMENT
           /\ (m.robot_id = rb.robot_id \/ m.robot_id = 0)
        THEN [got EXCEPT !.assignment_received = TRUE,
                         !.pending_assignment = m,
                         !.events = @ + 1]
        ELSE got

\* a copy of an assignment reaches the robot
wsn_robot_rx_assignment(r, e) ==
    /\ variant = "wsn_robot"
    /\ e \in net
    /\ robot[r].events < wsn_MaxEvents
    /\ robot' = [robot EXCEPT ![r] = wsn_udp_rx_callback(@, e.msg)]
    /\ net' = IF e.left > 1 THEN {[e EXCEPT !.left = @ - 1]} ELSE {}
    /\ out' = <<>>
    /\ UNCHANGED <<variant, sensor, nodes, la_db, robot_db, bs, dups, hist>>

\* a reply of a sensor node reaches the robot
wsn_robot_rx_sensor_reply(r, m) ==
    /\ variant = "wsn_robot"
    /\ robot' = [robot EXCEPT ![r] = wsn_udp_rx_callback(@, m)]
    /\ out' = <<>>
    /\ UNCHANGED <<variant, sensor, nodes, la_db, robot_db, bs, net, dups, hist>>

\* the copies of an assignment still on their way are lost
wsn_lose(e) ==
    /\ variant = "wsn_robot"
    /\ e \in net
    /\ net' = {}
    /\ out' = <<>>
    /\ UNCHANGED <<variant, sensor, nodes, la_db, robot_db, bs, robot, dups, hist>>

\* the timer of the first wait of the process expires
wsn_robot_startup_timer(r) ==
    /\ variant = "wsn_robot"
    /\ robot[r].pc = "startup"
    /\ robot' = [robot EXCEPT ![r].pc = "ready"]
    /\ out' = <<>>
    /\ UNCHANGED <<variant, sensor, nodes, la_db, robot_db, bs, net, dups, hist>>

\* PROCESS_EVENT_CONTINUE reaches the process: during the first wait it is
\* dropped; after it, the message the pointer refers to is read from the
\* packet buffer and, if it is an assignment, the local phase runs
wsn_robot_continue(r) ==
    /\ variant = "wsn_robot"
    /\ robot[r].events > 0
    /\ LET rb == [robot[r] EXCEPT !.events = @ - 1]
           assignment == rb.pktbuf
       IN  IF /\ rb.pc = "ready"
              /\ assignment.msg_type = wsn_WSN_MSG_TYPE_LA_ASSIGNMENT
           THEN LET res == wsn_execute_local_phase(
                               rb, assignment.la_id,
                               Coord(assignment.center_x, assignment.center_y))
                IN  /\ robot' = [robot EXCEPT ![r] = res.rb]
                    /\ out' = res.out
                    /\ hist' = [hist EXCEPT !.phases = @ + 1]
           ELSE /\ robot' = [robot EXCEPT ![r] = rb]
                /\ out' = <<>>
                /\ hist' = hist
    /\ UNCHANGED <<variant, sensor, nodes, la_db, robot_db, bs, net, dups>>

\* the replies of the sensor nodes
wsn_SensorReplies ==
    {[msg_type |-> wsn_WSN_MSG_TYPE_SENSOR_REPLY, sensor_id |-> 1,
      x_coord |-> 100, y_coord |-> 100, sensor_status |-> st] : st \in {0, 1}}

wsn_robot_Next ==
    \/ \E t \in {2, 3}, i \in DOMAIN la_db : wsn_bs_send_la_assignment(t, i)
    \/ \E e \in net : wsn_robot_rx_assignment(2, e)
    \/ \E m \in wsn_SensorReplies : wsn_robot_rx_sensor_reply(2, m)
    \/ \E e \in net : wsn_lose(e)
    \/ wsn_robot_startup_timer(2)
    \/ wsn_robot_continue(2)

SpecWsnRobot == wsn_robot_Init /\ [][wsn_robot_Next]_vars

(***************************************************************************)
(* wsn: src/src/base-station.c.  The robots are its environment: a robot   *)
(* that gets an assignment answers with a report.  The statistics timer    *)
(* and the energy counters are left out.                                   *)
(***************************************************************************)
wsn_MAX_ROBOTS == 2
wsn_CONF_MAX_ROBOTS == 2
\* the retries of assignment_timer are counted up to this number
wsn_MaxRetries == 2
\* covered-grid counts the reports of the robots carry
wsn_Covered == {1, 2}

\* the node ids of the robots the base station assigns
wsn_RobotIds == 2..(1 + wsn_MAX_ROBOTS)

\* what a store to robot_db[num_robots] beyond the array does: the bytes
\* behind the array take the record and nothing else depends on them, or
\* the tables of the base station are destroyed and it stops
wsn_OutOfBounds == {"kept", "crash"}

\* find_unassigned_la
wsn_find_unassigned_la(ldb, rdb, b) ==
    FirstIndex(b.num_las,
               LAMBDA i : /\ ldb[i].no_grid = 0
                          /\ \A j \in 0..(b.num_robots - 1) :
                                 rdb[j].assigned_la_id # ldb[i].la_id)

\* send_la_assignment of the base station: the copies it transmits
wsn_bs_copies(ldb, b, robot_id, la_id) ==
    LET i == FirstIndex(b.num_las, LAMBDA k : ldb[k].la_id = la_id)
    IN  IF i = -1 THEN <<>>
        ELSE [attempts \in 1..(IF robot_id = 2 \/ robot_id = 3 THEN 5 + 3 ELSE 5) |->
                 wsn_la_assignment_msg(ldb, robot_id, i)]

\* assign_la_to_robot; ub tells what the store does when num_robots is not
\* an index of robot_db
wsn_assign_la_to_robot(ldb, rdb, b, robot_id, ub) ==
    LET la_index == wsn_find_unassigned_la(ldb, rdb, b)
        n == b.num_robots
        rec == [robot_id |-> robot_id, assigned_la_id |-> ldb[la_index].la_id]
    IN  IF la_index = -1
        THEN [robot_db |-> rdb, bs |-> b, out |-> <<>>, decided |-> {}]
        ELSE IF n >= wsn_CONF_MAX_ROBOTS /\ ub = "crash"
        THEN [robot_db |-> rdb, bs |-> [b EXCEPT !.pc = "crashed"], out |-> <<>>,
              decided |-> {}]
        ELSE [robot_db |-> [j \in 0..n |-> IF j = n THEN rec ELSE rdb[j]],
              bs |-> [b EXCEPT !.num_robots = u8(n + 1)],
              out |-> wsn_bs_copies(ldb, b, robot_id, rec.assigned_la_id),
              decided |-> {<<robot_id, rec.assigned_la_id>>}]

\* update_la_status: the LA of the first record of the robot takes the count
wsn_update_la_status(ldb, rdb, b, robot_id, covered_grids) ==
    LET i == FirstIndex(b.num_robots, LAMBDA k : rdb[k].robot_id = robot_id)
        j == IF i = -1 THEN -1
             ELSE FirstIndex(b.num_las, LAMBDA k : ldb[k].la_id = rdb[i].assigned_la_id)
        l2 == [ldb EXCEPT ![j].no_grid = covered_grids]
    IN  IF j = -1 THEN [la_db |-> ldb, bs |-> b]
        ELSE [la_db |-> l2,
              bs |-> [b EXCEPT !.total_covered_grids =
                          u8(SumSeq([k \in 1..b.num_las |-> l2[k - 1].no_grid]))]]

\* the base station after PROCESS_BEGIN, at its 30 s wait
wsn_bs_Init ==
    /\ variant = "wsn_bs"
    /\ nodes = {1} \cup wsn_RobotIds
    /\ la_db = wsn_init_la_db
    /\ robot_db = <<>>
    /\ bs = [pc |-> "startup", num_las |-> Cardinality(DOMAIN wsn_init_la_db),
             num_robots |-> 0, assignments_sent |-> FALSE,
             total_covered_grids |-> 0,
             total_grids |-> u8(Cardinality(DOMAIN wsn_init_la_db) * wsn_NO_G)]
    /\ sensor = <<>>
    /\ robot = <<>>
    /\ net = {}
    /\ dups = 0
    /\ out = <<>>
    /\ hist = [retries |-> 0, decided |-> {}, reported |-> {}]

\* the 30 s timer expires: assignment_timer and the statistics timer are set
wsn_bs_startup_timer ==
    /\ variant = "wsn_bs"
    /\ bs.pc = "startup"
    /\ bs' = [bs EXCEPT !.pc = "running"]
    /\ out' = <<>>
    /\ UNCHANGED <<variant, sensor, nodes, la_db, robot_db, robot, net, dups, hist>>

\* the robots of the first branch of assignment_timer, one after the other
RECURSIVE wsn_initial_assignments(_, _, _, _)
wsn_initial_assignments(ldb, rdb, b, robot_node_id) ==
    IF robot_node_id > 1 + wsn_MAX_ROBOTS
    THEN [robot_db |-> rdb, bs |-> b, out |-> <<>>, decided |-> {}]
    ELSE LET a == wsn_assign_la_to_robot(ldb, rdb, b, robot_node_id, "kept")
             rest == wsn_initial_assignments(ldb, a.robot_db, a.bs, robot_node_id + 1)
         IN  [rest EXCEPT !.out = a.out \o @, !.decided = a.decided \cup @]

\* the robots of the retry branch: the LA of the first record of each robot
\* is sent again
wsn_retry_copies(ldb, rdb, b) ==
    LET of(robot_node_id) ==
            LET i == FirstIndex(b.num_robots, LAMBDA k : rdb[k].robot_id = robot_node_id)
            IN  IF i = -1 THEN <<>>
                ELSE wsn_bs_copies(ldb, b, robot_node_id, rdb[i].assigned_la_id)
        RECURSIVE from(_)
        from(r) == IF r > 1 + wsn_MAX_ROBOTS THEN <<>> ELSE of(r) \o from(r + 1)
    IN  from(2)

\* the messages of a step of the base station, on their way to the robots
wsn_on_air(msgs) == {msgs[k] : k \in DOMAIN msgs}

\* PROCESS_EVENT_TIMER of assignment_timer
wsn_bs_assignment_timer ==
    /\ variant = "wsn_bs"
    /\ bs.pc = "running"
    /\ IF ~bs.assignments_sent
       THEN \E a \in {wsn_initial_assignments(la_db, robot_db, bs, 2)} :
                /\ robot_db' = a.robot_db
                /\ bs' = [a.bs EXCEPT !.assignments_sent = TRUE]
                /\ out' = a.out
                /\ net' = net \cup wsn_on_air(a.out)
                /\ hist' = [hist EXCEPT !.decided = @ \cup a.decided]
       ELSE /\ out' = wsn_retry_copies(la_db, robot_db, bs)
            /\ net' = net \cup wsn_on_air(out')
            /\ hist' = [hist EXCEPT !.retries = Min(@ + 1, wsn_MaxRetries)]
            /\ UNCHANGED <<robot_db, bs>>
    /\ UNCHANGED <<variant, sensor, nodes, la_db, robot, dups>>

\* udp_rx_callback of the base station: a report of a robot arrives
wsn_bs_udp_rx_callback(m, ub) ==
    /\ variant = "wsn_bs"
    /\ bs.pc # "crashed"
    /\ m \in net
    /\ m.msg_type = wsn_WSN_MSG_TYPE_ROBOT_REPORT
    /\ \E u \in {wsn_update_la_status(la_db, robot_db, bs, m.robot_id, m.covered_grids)} :
       \E a \in {wsn_assign_la_to_robot(u.la_db, robot_db, u.bs, m.robot_id, ub)} :
           /\ la_db' = u.la_db
           /\ robot_db' = a.robot_db
           /\ bs' = a.bs
           /\ out' = a.out
           /\ net' = (net \ {m}) \cup wsn_on_air(a.out)
           /\ hist' = [hist EXCEPT !.decided = @ \cup a.decided,
                                   !.reported = @ \cup {<<m.robot_id, m.la_id>>}]
    /\ UNCHANGED <<variant, sensor, nodes, robot, dups>>

\* a robot gets an assignment addressed to it, runs its local phase in the
\* LA and sends its report (la_id is not part of the packet: it tells which
\* LA the robot worked in)
wsn_robot_answers(e, covered_grids) ==
    /\ variant = "wsn_bs"
    /\ e \in net
    /\ e.msg_type = wsn_WSN_MSG_TYPE_LA_ASSIGNMENT
    /\ net' = (net \ {e}) \cup {[msg_type |-> wsn_WSN_MSG_TYPE_ROBOT_REPORT,
                                 robot_id |-> e.robot_id,
                                 covered_grids |-> covered_grids,
                                 la_id |-> e.la_id]}
    /\ out' = <<>>
    /\ UNCHANGED <<variant, sensor, nodes, la_db, robot_db, bs, robot, dups, hist>>

\* datagrams that reach the port of the base station from a node it assigned
\* nothing to: a report of node 4, a datagram of the size of a report with
\* another type, a datagram of another size
wsn_Datagrams ==
    {[datalen |-> 3, msg_type |-> wsn_WSN_MSG_TYPE_ROBOT_REPORT, robot_id |-> 4,
      covered_grids |-> 1],
     [datalen |-> 3, msg_type |-> wsn_WSN_MSG_TYPE_SENSOR_REPLY, robot_id |-> 4,
      covered_grids |-> 1],
     [datalen |-> 2, msg_type |-> wsn_WSN_MSG_TYPE_ROBOT_BROADCAST, robot_id |-> 4,
      covered_grids |-> 0]}

\* udp_rx_callback of the base station on such a datagram (the callback is
\* registered before the 30 s wait)
wsn_bs_udp_rx_datagram(d, ub) ==
    /\ variant = "wsn_bs"
    /\ bs.pc # "crashed"
    /\ IF d.datalen = 3 /\ d.msg_type = wsn_WSN_MSG_TYPE_ROBOT_REPORT
       THEN \E u \in {wsn_update_la_status(la_db, robot_db, bs, d.robot_id, d.covered_grids)} :
            \E a \in {wsn_assign_la_to_robot(u.la_db, robot_db, u.bs, d.robot_id, ub)} :
                /\ la_db' = u.la_db
                /\ robot_db' = a.robot_db
                /\ bs' = a.bs
                /\ out' = a.out
                /\ net' = net \cup wsn_on_air(a.out)
                /\ hist' = [hist EXCEPT !.decided = @ \cup a.decided]
       ELSE /\ out' = <<>>
            /\ UNCHANGED <<la_db, robot_db, bs, net, hist>>
    /\ UNCHANGED <<variant, sensor, nodes, robot, dups>>

wsn_bs_Next ==
    \/ wsn_bs_startup_timer
    \/ wsn_bs_assignment_timer
    \/ \E m \in net, ub \in wsn_OutOfBounds : wsn_bs_udp_rx_callback(m, ub)
    \/ \E e \in net, c \in wsn_Covered : wsn_robot_answers(e, c)

SpecWsnBS == wsn_bs_Init /\ [][wsn_bs_Next]_vars

\* the base station on a network where other nodes send to its port as well
wsn_bs_open_Next ==
    \/ wsn_bs_Next
    \/ \E d \in wsn_Datagrams, ub \in wsn_OutOfBounds : wsn_bs_udp_rx_datagram(d, ub)

SpecWsnBSOpen == wsn_bs_Init /\ [][wsn_bs_open_Next]_vars

\* the steps of the base station and of the robots are taken when they can be
SpecWsnBSFair ==
    /\ SpecWsnBS
    /\ WF_vars(wsn_bs_startup_timer)
    /\ WF_vars(wsn_bs_assignment_timer)
    /\ WF_vars(\E m \in net, ub \in wsn_OutOfBounds : wsn_bs_udp_rx_callback(m, ub))
    /\ WF_vars(\E e \in net, c \in wsn_Covered : wsn_robot_answers(e, c))

(***************************************************************************)
(* dis: src/disaster-wsn-deployment/mobile-robot.c.  MAX_GRIDS_PER_LA,     *)
(* INITIAL_STOCK_RS and MAX_SENSORS_PER_ROBOT are used by the file and     *)
(* defined by none of the headers; they are parameters here.               *)
(***************************************************************************)
dis_MSG_ROBOT_REPORT == 1
dis_MSG_ROBOT_DEPLOY == 2
dis_MSG_TOPOLOGY_DISCOVERY == 4
dis_MSG_SENSOR_RESPONSE == 5
dis_MSG_SENSOR_DEPLOY == 6
dis_ROBOT_IDLE == 0
dis_ROBOT_DEPLOYED == 1
dis_ROBOT_TOPOLOGY_DISCOVERY == 2
dis_ROBOT_DISPERSION == 3
dis_robot_perception_range == 50
dis_sensor_perception_range == 20
dis_MAX_GRIDS_PER_LA == 4
dis_INITIAL_STOCK_RS == 1
dis_MAX_SENSORS_PER_ROBOT == 2
\* sensor responses a robot records in a run
dis_MaxReplies == 2

Abs(n) == IF n < 0 THEN -n ELSE n

\* the remainder of C, whose sign is that of the dividend
CRem(a, b) == IF a >= 0 THEN a % b ELSE -((-a) % b)

\* the quotient of C, which truncates towards zero
CDiv(a, b) == IF a >= 0 THEN a \div b ELSE -((-a) \div b)

\* create_grids
dis_create_grids(rb) ==
    LET grids_per_side == dis_robot_perception_range \div dis_sensor_perception_range
        num_grids == Min(u8(grids_per_side * grids_per_side), dis_MAX_GRIDS_PER_LA)
    IN  [rb EXCEPT
            !.num_grids = num_grids,
            !.no_permissible_moves = num_grids,
            !.grid_db =
                [i \in 0..(num_grids - 1) |->
                    [grid_id |-> i + 1,
                     center_x |-> rb.la_center_x - (dis_robot_perception_range \div 2)
                                  + ((i % grids_per_side) * dis_sensor_perception_range)
                                  + (dis_sensor_perception_range \div 2),
                     center_y |-> rb.la_center_y - (dis_robot_perception_range \div 2)
                                  + ((i \div grids_per_side) * dis_sensor_perception_range)
                                  + (dis_sensor_perception_range \div 2),
                     status |-> 0]]]

\* start_topology_discovery
dis_start_topology_discovery(rb) ==
    [rb |-> [rb EXCEPT !.state = dis_ROBOT_TOPOLOGY_DISCOVERY,
                       !.sensor_db = <<>>,
                       !.num_sensors = 0],
     out |-> <<[type |-> dis_MSG_TOPOLOGY_DISCOVERY, robot_id |-> rb.robot_id,
                sensor_id |-> 0, pos_x |-> rb.la_center_x, pos_y |-> rb.la_center_y,
                status |-> 0, battery_level |-> 0]>>]

\* handle_deployment_command
dis_handle_deployment_command(rb, msg) ==
    dis_start_topology_discovery(
        dis_create_grids(
            [rb EXCEPT
                !.assigned_la_id = msg.la_id,
                !.la_center_x = (CRem(msg.la_id - 1, 4) * dis_robot_perception_range)
                                + (dis_robot_perception_range \div 2),
                !.la_center_y = (CDiv(msg.la_id - 1, 4) * dis_robot_perception_range)
                                + (dis_robot_perception_range \div 2)]))

\* handle_sensor_response: the squared distance is kept in 16 bits
dis_handle_sensor_response(rb, msg) ==
    LET dx == msg.pos_x - rb.la_center_x
        dy == msg.pos_y - rb.la_center_y
        distance == (dx * dx + dy * dy) % 65536
        max_distance == (dis_robot_perception_range * dis_robot_perception_range) % 65536
    IN  IF distance <= max_distance /\ rb.num_sensors < 100
        THEN [rb EXCEPT !.sensor_db =
                            Append(@, [sensor_id |-> msg.sensor_id, pos_x |-> msg.pos_x,
                                       pos_y |-> msg.pos_y, status |-> msg.status,
                                       battery_level |-> msg.battery_level]),
                        !.num_sensors = u8(@ + 1)]
        ELSE rb

\* find_nearest_uncovered_grid: the first uncovered grid, or 255
dis_find_nearest_uncovered_grid(rb) ==
    LET open == {i \in 0..(rb.num_grids - 1) : rb.grid_db[i].status = 0}
    IN  IF open = {} THEN 255 ELSE CHOOSE i \in open : \A j \in open : i <= j

\* find_sensors_in_grid: the first max_sensors records inside the grid
dis_find_sensors_in_grid(rb, grid_idx, max_sensors) ==
    LET half_range == dis_sensor_perception_range \div 2
        inside == {i \in 1..rb.num_sensors :
                      /\ Abs(rb.sensor_db[i].pos_x - rb.grid_db[grid_idx].center_x)
                             <= half_range
                      /\ Abs(rb.sensor_db[i].pos_y - rb.grid_db[grid_idx].center_y)
                             <= half_range}
    IN  {i \in inside : Cardinality({j \in inside : j < i}) < max_sensors}

\* deploy_sensor_to_grid
dis_deploy_sensor_to_grid(rb, grid_idx, sensor_idx) ==
    [rb |-> [rb EXCEPT !.sensor_db[sensor_idx].pos_x = rb.grid_db[grid_idx].center_x,
                       !.sensor_db[sensor_idx].pos_y = rb.grid_db[grid_idx].center_y,
                       !.sensor_db[sensor_idx].status = 1],
     out |-> <<[type |-> dis_MSG_SENSOR_DEPLOY, robot_id |-> rb.robot_id,
                sensor_id |-> rb.sensor_db[sensor_idx].sensor_id,
                pos_x |-> rb.grid_db[grid_idx].center_x,
                pos_y |-> rb.grid_db[grid_idx].center_y,
                status |-> 1,
                battery_level |-> rb.sensor_db[sensor_idx].battery_level]>>]

\* the stock after "for (i = 1; i < sensors_in_grid && stock < MAX; i++) stock++"
dis_collect(stock_sensors, sensors_in_grid) ==
    IF stock_sensors < dis_MAX_SENSORS_PER_ROBOT
    THEN Min(stock_sensors + (sensors_in_grid - 1), dis_MAX_SENSORS_PER_ROBOT)
    ELSE stock_sensors

\* execute_dispersion_for_grid
dis_execute_dispersion_for_grid(rb, grid_idx) ==
    LET sensor_indices == dis_find_sensors_in_grid(rb, grid_idx, 10)
        sensors_in_grid == Cardinality(sensor_indices)
        first == CHOOSE i \in sensor_indices : \A j \in sensor_indices : i <= j
        dep == dis_deploy_sensor_to_grid(rb, grid_idx, first)
        res ==
            IF rb.stock_sensors > 0 /\ sensors_in_grid > 0
            THEN [rb |-> [dep.rb EXCEPT
                             !.stock_sensors = dis_collect(@ - 1, sensors_in_grid),
                             !.grid_db[grid_idx].status = 1],
                  out |-> dep.out]
            ELSE IF rb.stock_sensors > 0 /\ sensors_in_grid = 0
            THEN [rb |-> [rb EXCEPT !.stock_sensors = @ - 1,
                                    !.grid_db[grid_idx].status = 1],
                  out |-> <<>>]
            ELSE IF rb.stock_sensors = 0 /\ sensors_in_grid > 0
            THEN [rb |-> [dep.rb EXCEPT
                             !.stock_sensors = dis_collect(@, sensors_in_grid),
                             !.grid_db[grid_idx].status = 1],
                  out |-> dep.out]
            ELSE [rb |-> rb, out |-> <<>>]
    IN  [rb |-> [res.rb EXCEPT !.no_permissible_moves = u8(@ - 1)],
         out |-> res.out]

\* start_dispersion_phase
dis_start_dispersion_phase(rb) ==
    [rb EXCEPT !.state = dis_ROBOT_DISPERSION, !.current_grid = 0]

\* complete_local_phase
dis_complete_local_phase(rb) ==
    [rb |-> [rb EXCEPT !.state = dis_ROBOT_IDLE,
                       !.no_permissible_moves = rb.num_grids],
     out |-> <<[type |-> dis_MSG_ROBOT_REPORT, robot_id |-> rb.robot_id,
                la_id |-> rb.assigned_la_id,
                covered_grids |->
                    u8(Cardinality({i \in 0..(rb.num_grids - 1) :
                                       rb.grid_db[i].status = 1})),
                total_grids |-> rb.num_grids]>>]

\* the body of "while (1)" of the process, run after each event.  A timer
\* field is TRUE while the etimer is set and not expired; etimer_expired()
\* is true of an etimer that was never set.
dis_process_body(rb) ==
    LET r1 == IF rb.state = dis_ROBOT_TOPOLOGY_DISCOVERY
              THEN IF rb.topology_timer
                   THEN rb
                   ELSE [dis_start_dispersion_phase(rb) EXCEPT !.dispersion_timer = TRUE]
              ELSE rb
        grid_idx == dis_find_nearest_uncovered_grid(r1)
        moved == IF r1.no_permissible_moves > 0
                 THEN IF grid_idx # 255
                      THEN LET e == dis_execute_dispersion_for_grid(r1, grid_idx)
                           IN  [rb |-> [e.rb EXCEPT !.current_grid = u8(grid_idx + 1)],
                                out |-> e.out]
                      ELSE [rb |-> [r1 EXCEPT !.no_permissible_moves = 0], out |-> <<>>]
                 ELSE [rb |-> r1, out |-> <<>>]
        again == IF r1.no_permissible_moves > 0 /\ moved.rb.no_permissible_moves > 0
                 THEN [moved.rb EXCEPT !.dispersion_timer = TRUE]
                 ELSE moved.rb
        fin == dis_complete_local_phase(again)
    IN  IF r1.state = dis_ROBOT_DISPERSION /\ ~r1.dispersion_timer
        THEN IF again.no_permissible_moves = 0
             THEN [rb |-> fin.rb, out |-> moved.out \o fin.out]
             ELSE [rb |-> again, out |-> moved.out]
        ELSE [rb |-> r1, out |-> <<>>]

\* the robot after initialize_robot, at its first wait
dis_robot_init(node_id) ==
    [robot_id |-> node_id - 2,
     assigned_la_id |-> 0, la_center_x |-> 0, la_center_y |-> 0,
     state |-> dis_ROBOT_IDLE,
     stock_sensors |-> dis_INITIAL_STOCK_RS,
     no_permissible_moves |-> 0,
     current_grid |-> 0,
     grid_db |-> <<>>, sensor_db |-> <<>>, num_grids |-> 0, num_sensors |-> 0,
     topology_timer |-> FALSE, dispersion_timer |-> FALSE]

dis_robot_Init ==
    /\ variant = "dis_robot"
    /\ nodes = {2}
    /\ la_db = <<>>
    /\ robot_db = <<>>
    /\ bs = <<>>
    /\ sensor = <<>>
    /\ robot = [r \in {2} |-> dis_robot_init(r)]
    /\ net = {}
    /\ dups = 0
    /\ out = <<>>
    /\ hist = <<>>

\* udp_rx_callback applied to a robot_message_t
dis_robot_rx_robot_message(r, msg) ==
    /\ variant = "dis_robot"
    /\ IF msg.type = dis_MSG_ROBOT_DEPLOY /\ msg.robot_id = robot[r].robot_id
       THEN LET res == dis_handle_deployment_command(robot[r], msg)
            IN  /\ robot' = [robot EXCEPT ![r] = res.rb]
                /\ out' = res.out
       ELSE /\ robot' = robot
            /\ out' = <<>>
    /\ UNCHANGED <<variant, sensor, nodes, la_db, robot_db, bs, net, dups, hist>>

\* udp_rx_callback applied to a sensor_message_t
dis_robot_rx_sensor_message(r, msg) ==
    /\ variant = "dis_robot"
    /\ robot[r].num_sensors < dis_MaxReplies
    /\ robot' = [robot EXCEPT ![r] =
                    IF msg.type = dis_MSG_SENSOR_RESPONSE /\ msg.robot_id = @.robot_id
                    THEN dis_handle_sensor_response(@, msg)
                    ELSE @]
    /\ out' = <<>>
    /\ UNCHANGED <<variant, sensor, nodes, la_db, robot_db, bs, net, dups, hist>>

\* dispersion_timer expires and its event reaches the process
dis_robot_dispersion_timer(r) ==
    /\ variant = "dis_robot"
    /\ robot[r].dispersion_timer
    /\ LET res == dis_process_body([robot[r] EXCEPT !.dispersion_timer = FALSE])
       IN  /\ robot' = [robot EXCEPT ![r] = res.rb]
           /\ out' = res.out
    /\ UNCHANGED <<variant, sensor, nodes, la_db, robot_db, bs, net, dups, hist>>

\* any other event reaches the process
dis_robot_event(r) ==
    /\ variant = "dis_robot"
    /\ LET res == dis_process_body(robot[r])
       IN  /\ robot' = [robot EXCEPT ![r] = res.rb]
           /\ out' = res.out
    /\ UNCHANGED <<variant, sensor, nodes, la_db, robot_db, bs, net, dups, hist>>

\* the deployments the base station commands
dis_RobotMessages ==
    {[type |-> dis_MSG_ROBOT_DEPLOY, robot_id |-> t, la_id |-> la,
      covered_grids |-> 0, total_grids |-> 0] : t \in {0, 1}, la \in {1, 2}}

\* the responses of the sensor nodes: at the centre of a grid of the first
\* LA, or outside every LA
dis_SensorMessages ==
    {[type |-> dis_MSG_SENSOR_RESPONSE, robot_id |-> 0, sensor_id |-> id,
      pos_x |-> c.x, pos_y |-> c.y, status |-> 0, battery_level |-> 100] :
        id \in {1, 2}, c \in {Coord(10, 10), Coord(30, 10), Coord(200, 200)}}

dis_robot_Next ==
    \/ \E msg \in dis_RobotMessages : dis_robot_rx_robot_message(2, msg)
    \/ \E msg \in dis_SensorMessages : dis_robot_rx_sensor_message(2, msg)
    \/ dis_robot_dispersion_timer(2)
    \/ dis_robot_event(2)

SpecDisRobot == dis_robot_Init /\ [][dis_robot_Next]_vars

\* dispersion_timer is the only timer the process sets (lines 424 and 440):
\* its expiry is the only event the robot can count on
SpecDisRobotFair == SpecDisRobot /\ WF_vars(dis_robot_dispersion_timer(2))

(***************************************************************************)
(* The sensor nodes: the sensor part of src/app1.c, src/src/sensor-node.c  *)
(* and src/disaster-wsn-deployment/sensor-node.c.  One sensor node is      *)
(* followed.  The energy sums are kept in units: every amount the code adds *)
(* (a power times a duration, a cost per operation) is one unit.           *)
(***************************************************************************)
sensor_Node == 5

\* events a sensor handles in a run
sensor_MaxEvents == 4

\* places of the target area: where random_rand() puts the sensor, where a
\* robot stands when it broadcasts, where a command sends the sensor
sensor_Coords == {Coord(50, 50), Coord(150, 50), Coord(250, 50), Coord(550, 150)}

sensor_Init ==
    /\ variant \in {"app1_sensor", "wsn_sensor", "dis_sensor"}
    /\ nodes = {sensor_Node}
    /\ la_db = <<>>
    /\ robot_db = <<>>
    /\ bs = <<>>
    /\ robot = <<>>
    /\ \E c \in sensor_Coords :
           sensor = [s \in {sensor_Node} |->
                        [pos |-> c, active |-> 0, is_deployed |-> 0, robot_in_range |-> 0,
                         baseline_energy |-> 0, sensing_energy |-> 0,
                         processing_energy |-> 0, radio_energy |-> 0,
                         active_energy |-> 0, idle_energy |-> 0,
                         total_energy_consumed |-> 0,
                         sensing_operations |-> 0, processing_operations |-> 0,
                         tx_operations |-> 0, rx_operations |-> 0,
                         events |-> 0]]
    /\ net = {}
    /\ dups = 0
    /\ out = <<>>
    /\ hist = <<>>

\* the sums and counters named in fs grow by one unit
sensor_accrue(sn, fs) == [f \in DOMAIN sn |-> IF f \in fs THEN sn[f] + 1 ELSE sn[f]]

\* update_*_energy of app1.c: the sum of node_energy_stats named by f grows
\* (transmit, receive and idle radio are kept in radio_energy); the total is
\* the sum the statistics print
app1_update_energy(sn, f) == sensor_accrue(sn, {f, "total_energy_consumed"})

\* a sensor handles an event
sensor_handles(s, sn) ==
    /\ sensor[s].events < sensor_MaxEvents
    /\ sensor' = [sensor EXCEPT ![s] = [sn EXCEPT !.events = @ + 1]]

\* broadcast_recv_sensor of app1.c: an Mp of the right size
app1_broadcast_recv_sensor(s, msg) ==
    /\ variant = "app1_sensor"
    /\ LET in_range == dist2(sensor[s].pos, msg.robot_coord)
                       <= app1_ROBOT_PERCEPTION_RANGE * app1_ROBOT_PERCEPTION_RANGE
           rx == app1_update_energy(sensor[s], "radio_energy")
       IN  /\ sensor_handles(s, IF in_range THEN app1_update_energy(rx, "radio_energy") ELSE rx)
           /\ out' = IF in_range
                     THEN <<[type |-> "Sensor_M", to |-> msg.robot_id, sensor_id |-> s,
                             sensor_coord |-> sensor[s].pos,
                             sensor_status |-> sensor[s].active]>>
                     ELSE <<>>
    /\ UNCHANGED <<variant, nodes, la_db, robot_db, bs, robot, net, dups, hist>>

\* unicast_recv_sensor_activation, were the position taken from every
\* command addressed to the sensor
app1_unicast_recv_sensor_activation_moving(s, msg) ==
    /\ variant = "app1_sensor"
    /\ LET rx == app1_update_energy(sensor[s], "radio_energy")
       IN  sensor_handles(s,
               IF msg.sensor_id # s THEN rx
               ELSE app1_update_energy([rx EXCEPT !.active = msg.activate_status,
                                                  !.pos = msg.new_coord],
                                       "processing_energy"))
    /\ out' = <<>>
    /\ UNCHANGED <<variant, nodes, la_db, robot_db, bs, robot, net, dups, hist>>

\* unicast_recv_sensor_activation of app1.c: a robot_to_sensor_msg_t
app1_unicast_recv_sensor_activation(s, msg) ==
    /\ variant = "app1_sensor"
    /\ LET rx == app1_update_energy(sensor[s], "radio_energy")
       IN  sensor_handles(s,
               IF msg.sensor_id # s THEN rx
               ELSE app1_update_energy([rx EXCEPT !.active = msg.activate_status,
                                                  !.pos = IF msg.activate_status # 0
                                                          THEN msg.new_coord ELSE @],
                                       "processing_energy"))
    /\ out' = <<>>
    /\ UNCHANGED <<variant, nodes, la_db, robot_db, bs, robot, net, dups, hist>>

\* the 1 s loop of the sensor of app1.c
app1_sensor_timer(s) ==
    /\ variant = "app1_sensor"
    /\ LET b == app1_update_energy(sensor[s], "baseline_energy")
       IN  sensor_handles(s,
               IF b.active # 0
               THEN app1_update_energy(app1_update_energy(b, "sensing_energy"),
                                       "processing_energy")
               ELSE app1_update_energy(b, "radio_energy"))
    /\ out' = <<>>
    /\ UNCHANGED <<variant, nodes, la_db, robot_db, bs, robot, net, dups, hist>>

\* udp_rx_callback and handle_robot_discovery of src/src/sensor-node.c; the
\* packet holds msg_type and robot_id, robot_coord is where its sender stands
wsn_sensor_udp_rx_callback(s, msg) ==
    /\ variant = "wsn_sensor"
    /\ IF wsn_sizeof(msg) = 2 /\ msg.msg_type = wsn_WSN_MSG_TYPE_ROBOT_BROADCAST
       THEN /\ sensor_handles(s, sensor_accrue(sensor[s],
                                     {"radio_energy", "total_energy_consumed"}))
            /\ out' = <<[msg_type |-> wsn_WSN_MSG_TYPE_SENSOR_REPLY, sensor_id |-> s,
                         x_coord |-> sensor[s].pos.x, y_coord |-> sensor[s].pos.y,
                         sensor_status |-> sensor[s].active]>>
       ELSE /\ sensor_handles(s, sensor[s])
            /\ out' = <<>>
    /\ UNCHANGED <<variant, nodes, la_db, robot_db, bs, robot, net, dups, hist>>

\* PROCESS_EVENT_TIMER of src/src/sensor-node.c: update_energy_consumption
\* on energy_timer, perform_sensing on sensing_timer,
\* print_sensor_statistics on stats_timer
wsn_sensor_timer(s, data) ==
    /\ variant = "wsn_sensor"
    /\ LET sn == sensor[s]
       IN  sensor_handles(s,
               IF data = "energy_timer"
               THEN IF sn.active = 1
                    THEN [sn EXCEPT !.baseline_energy = @ + 1, !.sensing_energy = @ + 1,
                                    !.processing_energy = @ + 1, !.radio_energy = @ + 1,
                                    !.active_energy = @ + 4,
                                    !.total_energy_consumed = @ + 4]
                    ELSE [sn EXCEPT !.baseline_energy = @ + 1, !.radio_energy = @ + 1,
                                    !.idle_energy = @ + 2,
                                    !.total_energy_consumed = @ + 2]
               ELSE IF data = "sensing_timer"
               THEN IF sn.active = 1
                    THEN [sn EXCEPT !.sensing_energy = @ + 1, !.processing_energy = @ + 1,
                                    !.active_energy = @ + 4,
                                    !.total_energy_consumed = @ + 4]
                    ELSE sn
               ELSE [sn EXCEPT !.total_energy_consumed = sn.active_energy + sn.idle_energy])
    /\ out' = <<>>
    /\ UNCHANGED <<variant, nodes, la_db, robot_db, bs, robot, net, dups, hist>>

\* update_energy_consumption of src/disaster-wsn-deployment/sensor-node.c
dis_update_energy_consumption(sn) ==
    LET u == [sn EXCEPT !.baseline_energy = @ + 1,
                        !.sensing_energy = @ + sn.sensing_operations,
                        !.processing_energy = @ + sn.processing_operations,
                        !.radio_energy = @ + sn.tx_operations + sn.rx_operations,
                        !.sensing_operations = 0, !.processing_operations = 0,
                        !.tx_operations = 0, !.rx_operations = 0]
    IN  [u EXCEPT !.total_energy_consumed =
                      IF sn.active = 1
                      THEN u.baseline_energy + u.sensing_energy + u.processing_energy
                           + u.radio_energy
                      ELSE u.baseline_energy + u.radio_energy]

\* switch_to_mode of src/disaster-wsn-deployment/sensor-node.c
dis_switch_to_mode(sn, new_mode) ==
    IF sn.active # new_mode
    THEN [dis_update_energy_consumption(sn) EXCEPT !.active = new_mode]
    ELSE sn

\* udp_rx_callback of src/disaster-wsn-deployment/sensor-node.c: a datagram
\* of 1 byte is an Mp (robot_coord is where its sender stands), a datagram
\* of 4 bytes is a relocation to (new_x, new_y)
dis_sensor_udp_rx_callback(s, d) ==
    /\ variant = "dis_sensor"
    /\ LET rx == sensor_accrue(sensor[s], {"rx_operations", "processing_operations"})
       IN  IF d.datalen = 1
           THEN /\ sensor_handles(s, sensor_accrue([rx EXCEPT !.robot_in_range = 1],
                                                   {"tx_operations"}))
                /\ out' = <<[sensor_id |-> s, x_coord |-> sensor[s].pos.x,
                             y_coord |-> sensor[s].pos.y,
                             sensor_status |-> sensor[s].active]>>
           ELSE IF d.datalen = 4
           THEN /\ sensor_handles(s,
                       sensor_accrue(
                           dis_switch_to_mode(
                               sensor_accrue([rx EXCEPT !.pos = Coord(d.new_x, d.new_y),
                                                        !.is_deployed = 1],
                                             {"processing_operations"}), 1),
                           {"tx_operations"}))
                /\ out' = <<[sensor_id |-> s, x_coord |-> d.new_x, y_coord |-> d.new_y,
                             sensor_status |-> 1]>>
           ELSE /\ sensor_handles(s, rx)
                /\ out' = <<>>
    /\ UNCHANGED <<variant, nodes, la_db, robot_db, bs, robot, net, dups, hist>>

\* PROCESS_EVENT_TIMER of src/disaster-wsn-deployment/sensor-node.c; data is
\* the timer, rnd is random_rand() % 100
dis_sensor_timer(s, data, rnd) ==
    /\ variant = "dis_sensor"
    /\ LET sn == sensor[s]
           status_update == sn.active = 1 /\ sn.robot_in_range = 1
       IN  IF data = "sensing_timer"
           THEN /\ sensor_handles(s,
                       IF sn.active = 1
                       THEN sensor_accrue(sn, {"sensing_operations", "processing_operations"}
                                              \cup (IF status_update THEN {"tx_operations"}
                                                    ELSE {}))
                       ELSE sn)
                /\ out' = IF status_update
                          THEN <<[sensor_id |-> s, x_coord |-> sn.pos.x,
                                  y_coord |-> sn.pos.y, sensor_status |-> 1]>>
                          ELSE <<>>
           ELSE IF data = "energy_timer"
           THEN /\ sensor_handles(s, dis_update_energy_consumption(sn))
                /\ out' = <<>>
           ELSE /\ sensor_handles(s,
                       IF sn.is_deployed = 0
                       THEN IF rnd < 30 THEN dis_switch_to_mode(sn, 1 - sn.active) ELSE sn
                       ELSE dis_switch_to_mode(sn, 1))
                /\ out' = <<>>
    /\ UNCHANGED <<variant, nodes, la_db, robot_db, bs, robot, net, dups, hist>>

\* the Mp of a robot, by where the robot stands
sensor_Mp ==
    {[msg_type |-> wsn_WSN_MSG_TYPE_ROBOT_BROADCAST, datalen |-> 1, robot_id |-> 2,
      robot_coord |-> c] : c \in sensor_Coords}

\* the commands of a robot: robot_to_sensor_msg_t of app1.c, the two
\* coordinates of src/disaster-wsn-deployment
sensor_Commands ==
    {[sensor_id |-> id, activate_status |-> a, new_coord |-> c, datalen |-> 4,
      new_x |-> c.x, new_y |-> c.y] :
        id \in {sensor_Node, sensor_Node + 1}, a \in {0, 1}, c \in sensor_Coords}

sensor_Next ==
    \/ \E msg \in sensor_Mp : app1_broadcast_recv_sensor(sensor_Node, msg)
    \/ \E msg \in sensor_Commands : app1_unicast_recv_sensor_activation(sensor_Node, msg)
    \/ app1_sensor_timer(sensor_Node)
    \/ \E msg \in sensor_Mp : wsn_sensor_udp_rx_callback(sensor_Node, msg)
    \/ \E data \in {"energy_timer", "sensing_timer", "stats_timer"} :
           wsn_sensor_timer(sensor_Node, data)
    \/ \E d \in sensor_Mp \cup sensor_Commands : dis_sensor_udp_rx_callback(sensor_Node, d)
    \/ \E data \in {"sensing_timer", "energy_timer", "mode_timer"}, rnd \in {29, 30} :
           dis_sensor_timer(sensor_Node, data, rnd)

SpecSensor == sensor_Init /\ [][sensor_Next]_vars

(***************************************************************************)
(* Properties                                                              *)
(***************************************************************************)
\* the covered-grid count of the LA at index i of an LA_DB
LaCount(ldb, i) ==
    IF variant = "app1" THEN ldb[i].num_covered_grids ELSE ldb[i].no_grid

\* the index in LA_DB of the LA an entry of Robot_DB names, or -1
LaIndexOf(ldb, la_id) ==
    IF \E i \in DOMAIN ldb : ldb[i].la_id = la_id
    THEN CHOOSE i \in DOMAIN ldb : ldb[i].la_id = la_id
    ELSE -1

\* C1: once the covered-grid count of an LA is non-zero, no later
\* RobotReport (duplicate, late, or of another robot) changes it.
C1_FirstWriterWins ==
    [][\A i \in DOMAIN la_db :
          LaCount(la_db, i) # 0 => LaCount(la_db', i) = LaCount(la_db, i)]_vars

\* C2: a RobotReport delivered a second time, when the LA it was first
\* credited to already has a non-zero count, leaves the LA table, the
\* assignment table, the global total and the report counter unchanged and
\* makes the base station send nothing.
C2_DuplicateReportIsIdempotent ==
    [][\A e \in net, keep \in BOOLEAN :
          (/\ e.first >= 0
           /\ LaCount(la_db, e.first) # 0
           /\ app1_unicast_recv_bs(e, keep))
          => (/\ la_db' = la_db
              /\ robot_db' = robot_db
              /\ bs'.total_covered_grids_global_bs = bs.total_covered_grids_global_bs
              /\ bs'.robots_finished_current_phase = bs.robots_finished_current_phase
              /\ bs'.events = bs.events
              /\ out' = <<>>)]_vars

\* C3: no two different robots are assigned the same LA while the count of
\* that LA is 0.
C3_NoTwoRobotsOnAnUncoveredLA ==
    \A i, j \in DOMAIN robot_db :
        (i # j /\ robot_db[i].assigned_la_id = robot_db[j].assigned_la_id)
        => LET k == LaIndexOf(la_db, robot_db[i].assigned_la_id)
           IN  k # -1 => LaCount(la_db, k) # 0

\* the robots that run, and views of their state common to the variants
Robots == DOMAIN robot

RobotStock(r) ==
    IF variant = "app1" THEN robot[r].robot_stock_rs ELSE robot[r].stock_rs

StockCapacity ==
    IF variant = "app1" THEN app1_ROBOT_STOCK_CAPACITY ELSE top_ROBOT_STOCK_CAPACITY

RobotNoP(r) ==
    IF variant = "app1" THEN robot[r].robot_no_p ELSE robot[r].no_p

GridsPerLA(r) ==
    IF variant = "app1" THEN app1_MAX_GRIDS_PER_LA ELSE robot[r].num_grids

\* the robot is between the start of its dispersion and its report
InDispersion(r) ==
    IF variant = "app1" THEN robot[r].pc = "dispersion"
    ELSE robot[r].current_phase \in {top_ROBOT_PHASE_DISPERSION, top_ROBOT_PHASE_REPORTING}

\* C4: the stock of every robot is within 0..capacity in every state.
C4_StockWithinCapacity ==
    \A r \in Robots : 0 <= RobotStock(r) /\ RobotStock(r) <= StockCapacity

\* the robots of app1.c and of src/mobile-robot.c, each among its sensor nodes
LocalPhaseInit == app1_robot_Init \/ top_robot_Init

LocalPhaseNext == app1_robot_Next \/ top_robot_Next

SpecLocalPhase == LocalPhaseInit /\ [][LocalPhaseNext]_vars

\* C5: during the dispersion of a local phase, NO_P plus the grid visits
\* made so far equals the number of grids of the LA.
C5_NoPPlusVisitsIsGrids ==
    \A r \in Robots : InDispersion(r) => RobotNoP(r) + robot[r].visits = GridsPerLA(r)

\* a robot has used up its moves and its last visit was a Case 4
C5_Witness ==
    \E r \in Robots :
        /\ InDispersion(r)
        /\ RobotNoP(r) = 0
        /\ robot[r].visits = GridsPerLA(r)
        /\ robot[r].visits > 1
        /\ robot[r].last_case = 4

\* the number of grids of a location area, as the base station counts them
GridsOfLA ==
    IF variant = "app1" THEN app1_MAX_GRIDS_PER_LA ELSE top_grids_per_la

\* C6: the covered-grid count of every LA is within 0..gridsPerLA after any
\* sequence of assignments and of reports of robots that ran the local phase.
C6_LaCountWithinGrids ==
    \A i \in DOMAIN la_db :
        0 <= LaCount(la_db, i) /\ LaCount(la_db, i) <= GridsOfLA

\* C7: the percentage the base station computes at the end of the run is
\* 100 * (sum of the counts of all LAs) / (numLAs * gridsPerLA) and lies
\* within 0..100.
C7_CoveragePercentage ==
    (variant = "app1" /\ bs.pc = "done")
    => /\ bs.per_ac.den = app1_NO_LA * app1_MAX_GRIDS_PER_LA
       /\ bs.per_ac.num =
              100 * SumSeq([i \in 1..app1_NO_LA |-> la_db[i - 1].num_covered_grids])
       /\ 0 <= bs.per_ac.num
       /\ bs.per_ac.num <= 100 * bs.per_ac.den

\* the LA assign() selects given the tables: the lowest index whose count is
\* 0 and whose id no robot holds, or -1
FreeLA(ldb, rdb) ==
    FirstIndex(Cardinality(DOMAIN ldb),
               LAMBDA i : /\ LaCount(ldb, i) = 0
                          /\ \A p \in DOMAIN rdb : rdb[p].assigned_la_id # ldb[i].la_id)

\* assign() for the robots p, p+1, ... of Robot_DB in turn
RECURSIVE AssignFrom(_, _, _)
AssignFrom(ldb, rdb, p) ==
    IF p \notin DOMAIN rdb THEN rdb
    ELSE LET la == FreeLA(ldb, rdb)
         IN  AssignFrom(ldb,
                        IF la = -1 THEN rdb
                        ELSE [rdb EXCEPT ![p].assigned_la_id = ldb[la].la_id],
                        p + 1)

\* C8: whenever the base station reassigns its robots, each robot in turn
\* gets the lowest-id LA whose count is 0 and which no robot holds, and
\* keeps its assignment when there is no such LA.
C8_AssignSelectsLowestFreeLA ==
    [][robot_db' # robot_db => robot_db' = AssignFrom(la_db, robot_db, 0)]_vars

\* the phase of a robot: 0 Idle, 1 TopologyDiscovery, 2 Dispersion,
\* 3 Reporting
PhaseOf(rb) ==
    IF variant = "dis_robot"
    THEN IF rb.state = dis_ROBOT_IDLE THEN 0
         ELSE IF rb.state = dis_ROBOT_TOPOLOGY_DISCOVERY THEN 1
         ELSE IF rb.state = dis_ROBOT_DISPERSION THEN 2
         ELSE 4
    ELSE rb.current_phase

\* C9: every change of phase of a robot is a step of the cycle
\* Idle -> TopologyDiscovery -> Dispersion -> Reporting -> Idle.
C9_PhasesFollowTheCycle ==
    [][\A r \in Robots :
          \/ PhaseOf(robot'[r]) = PhaseOf(robot[r])
          \/ PhaseOf(robot'[r]) = (PhaseOf(robot[r]) + 1) % 4]_vars

\* C10: a robot runs at most one local phase per assignment the base
\* station decided for it, however many copies of the assignment arrive.
C10_OnePhasePerAssignment ==
    hist.phases <= hist.decided

\* C11: with the steps taken when they can be and every packet delivered
\* (again and again no packet is on its way), the base station reaches a
\* state from which on no LA has a covered-grid count of 0: the global
\* phase has ended and the coverage is final.
C11_GlobalPhaseTerminates ==
    []<>(net = {}) => <>[](\A i \in DOMAIN la_db : LaCount(la_db, i) # 0)

\* C13: an assignment is not transmitted again once the report of the robot
\* for that LA has been processed (the retries of an assignment end).
C13_NoRetryAfterReport ==
    [][\A k \in DOMAIN out' :
          out'[k].msg_type = wsn_WSN_MSG_TYPE_LA_ASSIGNMENT
          => <<out'[k].robot_id, out'[k].la_id>> \notin hist.reported]_vars

\* C12: a robot that has accepted an assignment (it has left Idle) sends its
\* report and is Idle again even if no message and no other event reaches it
\* from some moment on: the timers of the robot alone carry it through
\* discovery and dispersion.
C12_LocalPhaseEnds ==
    \/ []<><<\/ \E msg \in dis_RobotMessages : dis_robot_rx_robot_message(2, msg)
             \/ \E msg \in dis_SensorMessages : dis_robot_rx_sensor_message(2, msg)
             \/ dis_robot_event(2)>>_vars
    \/ ((PhaseOf(robot[2]) # 0) ~> (PhaseOf(robot[2]) = 0))

\* C14: a grid visit on which Case 1 applies (stock s > 0, k >= 1 idle
\* sensors at the grid) leaves the grid covered and the stock at
\* min(capacity, s - 1 + k), and sends, besides the deployment,
\* min(k, capacity - (s - 1)) collect commands.
C14_Case1 ==
    [][\A r \in Robots :
          (robot'[r].visits = robot[r].visits + 1 /\ robot'[r].last_case = 1)
          => LET s == robot[r].stock_rs
                 g == robot[r].current_grid_index
                 k == Len(top_grid_sensor_indices(
                             [robot[r] EXCEPT !.current_x = robot[r].grid_db[g].center_x,
                                              !.current_y = robot[r].grid_db[g].center_y]))
             IN  /\ robot'[r].grid_db[g].grid_status = 1
                 /\ robot'[r].stock_rs = Min(top_ROBOT_STOCK_CAPACITY, s - 1 + k)
                 /\ Len(out') - 1 = Min(k, top_ROBOT_STOCK_CAPACITY - (s - 1))]_vars

\* C15: a grid visit on which Case 2 applies (stock s > 0, no idle sensor at
\* the grid) leaves the grid covered and the stock at exactly s - 1, and
\* sends no message.
C15_Case2 ==
    [][\A r \in Robots :
          (robot'[r].visits = robot[r].visits + 1 /\ robot'[r].last_case = 2)
          => /\ robot'[r].grid_db[robot[r].current_grid_index].grid_status = 1
             /\ robot'[r].stock_rs = robot[r].stock_rs - 1
             /\ out' = <<>>]_vars

\* C16: a grid visit on which Case 3 applies (stock 0, k >= 1 idle sensors
\* at the grid) sends exactly one command, which carries the centre of the
\* grid, activates the sensor of the grid that was discovered first and no
\* other, leaves the grid covered and the stock at min(capacity, k - 1); the
\* activated sensor is not collected.
C16_Case3 ==
    [][\A r \in Robots :
          (robot'[r].visits = robot[r].visits + 1 /\ robot'[r].last_case = 3)
          => LET g == robot[r].current_grid_index
                 idx == top_grid_sensor_indices(
                            [robot[r] EXCEPT !.current_x = robot[r].grid_db[g].center_x,
                                             !.current_y = robot[r].grid_db[g].center_y])
                 activated == {i \in 1..robot[r].num_sensors :
                                  /\ robot[r].sensor_db[i].sensor_status = 0
                                  /\ robot'[r].sensor_db[i].sensor_status = 1}
             IN  /\ Len(out') = 1
                 /\ out'[1].target_x = robot[r].grid_db[g].center_x
                 /\ out'[1].target_y = robot[r].grid_db[g].center_y
                 /\ activated = {idx[1] + 1}
                 /\ robot'[r].grid_db[g].grid_status = 1
                 /\ robot'[r].stock_rs = Min(top_ROBOT_STOCK_CAPACITY, Len(idx) - 1)]_vars

\* C17: a grid visit on which Case 4 applies (stock 0, no sensor at the grid)
\* leaves the grid table (so the visited grid stays uncovered), the stock and
\* the sensor table as they were and sends nothing; the move budget goes
\* down by 1.
C17_Case4 ==
    [][\A r \in Robots :
          (robot'[r].visits = robot[r].visits + 1 /\ robot'[r].last_case = 4)
          => /\ RobotStock(r) = 0
             /\ RobotStock(r)' = RobotStock(r)
             /\ IF variant = "app1"
                THEN /\ robot'[r].robot_grid_db = robot[r].robot_grid_db
                     /\ robot'[r].robot_sensor_db = robot[r].robot_sensor_db
                     /\ \E t \in DOMAIN robot[r].robot_grid_db :
                            /\ robot'[r].robot_current_pos = robot[r].robot_grid_db[t].center_coord
                            /\ robot'[r].robot_grid_db[t].grid_status = 0
                ELSE /\ robot'[r].grid_db = robot[r].grid_db
                     /\ robot'[r].sensor_db = robot[r].sensor_db
                     /\ \E t \in DOMAIN robot[r].grid_db :
                            /\ robot'[r].current_x = robot[r].grid_db[t].center_x
                            /\ robot'[r].current_y = robot[r].grid_db[t].center_y
                            /\ robot'[r].grid_db[t].grid_status = 0
             /\ out' = <<>>
             /\ RobotNoP(r)' = RobotNoP(r) - 1]_vars

\* a robot with an empty stock has just visited a grid with no sensor, while
\* another grid of its LA is covered
C17_Witness ==
    \E r \in Robots :
        /\ robot[r].last_case = 4
        /\ robot[r].visits >= 1
        /\ RobotStock(r) = 0
        /\ IF variant = "app1"
           THEN \E t \in DOMAIN robot[r].robot_grid_db : robot[r].robot_grid_db[t].grid_status = 1
           ELSE \E t \in DOMAIN robot[r].grid_db : robot[r].grid_db[t].grid_status = 1

\* C18: every move of the dispersion goes to the uncovered grid nearest to
\* the position the robot moves from, and among the nearest ones to the one
\* with the lowest grid id.
C18_MovesToNearestUncoveredGrid ==
    [][\A r \in Robots :
          robot'[r].visits = robot[r].visits + 1
          => LET pos == Coord(robot[r].current_x, robot[r].current_y)
                 gdb == robot[r].grid_db
                 open == {i \in DOMAIN gdb : gdb[i].grid_status = 0}
                 d(i) == dist2(pos, Coord(gdb[i].center_x, gdb[i].center_y))
                 g == robot[r].current_grid_index
             IN  /\ robot'[r].current_x = gdb[g].center_x
                 /\ robot'[r].current_y = gdb[g].center_y
                 /\ g \in open
                 /\ \A j \in open :
                        d(g) < d(j) \/ (d(g) = d(j) /\ gdb[g].grid_id <= gdb[j].grid_id)]_vars

\* C19: the covered-grid count of a report a robot sends is the number of
\* grids its Grid table flags covered at the end of the dispersion.
C19_ReportCountsCoveredGrids ==
    [][\A k \in DOMAIN out' :
          /\ out'[k].type = "Robot_pM"
              => out'[k].covered_grids_in_la =
                     Cardinality({t \in DOMAIN robot[out'[k].robot_id].robot_grid_db :
                                     robot[out'[k].robot_id].robot_grid_db[t].grid_status = 1})
          /\ out'[k].type = "robot_report"
              => \E r \in Robots :
                     /\ robot[r].robot_id = out'[k].robot_id
                     /\ out'[k].covered_grids =
                            Cardinality({t \in DOMAIN robot[r].grid_db :
                                            robot[r].grid_db[t].grid_status = 1})]_vars

\* C20: a robot that is Idle, before its first assignment and after each
\* report, holds exactly the initial allotment of sensors in its stock.
C20_IdleStockIsInitialAllotment ==
    \A r \in Robots :
        robot[r].current_phase = top_ROBOT_PHASE_IDLE
        => robot[r].stock_rs = top_ROBOT_INITIAL_STOCK

\* C21: whatever sensor replies have arrived, duplicated ones included, the
\* sensor table of a robot holds at most one record per sensor id.
C21_OneRecordPerSensorId ==
    \A r \in Robots :
        \A i, j \in DOMAIN robot[r].sensor_db :
            robot[r].sensor_db[i].sensor_id = robot[r].sensor_db[j].sensor_id => i = j

\* C22: the LA table of the base station has min(side * side, capacity)
\* entries, side = floor(area / robot range), in row-major order with
\* sequential ids, each centred on its cell and with count 0.
C22_LaTableTilesTheArea ==
    LET side == wsn_TARGET_AREA_SIZE \div wsn_ROBOT_PERCEPTION_RANGE
        R == wsn_ROBOT_PERCEPTION_RANGE
    IN  /\ Cardinality(DOMAIN la_db) = Min(side * side, wsn_MAX_LOCATION_AREAS)
        /\ \A i \in DOMAIN la_db :
               /\ la_db[i].la_id = la_db[0].la_id + i
               /\ la_db[i].center_x = (i % side) * R + R \div 2
               /\ la_db[i].center_y = (i \div side) * R + R \div 2
               /\ bs.pc = "startup" => la_db[i].no_grid = 0

\* C23: the Grid table a robot builds for its local phase has side * side
\* grids, side = floor(robot range / sensor range), with pairwise distinct
\* centres, and the move budget of the phase is that number.
C23_GridTableIsTheLattice ==
    \A r \in Robots :
        robot[r].num_grids # 0
        => LET side == wsn_ROBOT_PERCEPTION_RANGE \div wsn_SENSOR_PERCEPTION_RANGE
               gdb == robot[r].grid_db
           IN  /\ Cardinality(DOMAIN gdb) = side * side
               /\ robot[r].no_p = side * side
               /\ \A i, j \in DOMAIN gdb :
                      (gdb[i].center_x = gdb[j].center_x /\ gdb[i].center_y = gdb[j].center_y)
                      => i = j

\* C24: a datagram to the base station that is no RobotReport, or a report
\* of a robot that has no record in Robot_DB, leaves LA_DB, Robot_DB and the
\* covered total as they are and sends no LA assignment.
C24_RejectedReportChangesNothing ==
    [][\A d \in wsn_Datagrams, ub \in wsn_OutOfBounds :
           (/\ wsn_bs_udp_rx_datagram(d, ub)
            /\ \A k \in DOMAIN robot_db : robot_db[k].robot_id # d.robot_id)
           => /\ UNCHANGED <<la_db, robot_db>>
              /\ bs'.total_covered_grids = bs.total_covered_grids
              /\ out' = <<>>]_vars

C26_RepliesOnlyWithinRange ==
    [][\A msg \in sensor_Mp :
           LET sn == sensor[sensor_Node]
               R == IF variant = "app1_sensor" THEN app1_ROBOT_PERCEPTION_RANGE
                    ELSE IF variant = "wsn_sensor" THEN wsn_ROBOT_PERCEPTION_RANGE
                    ELSE top_ROBOT_PERCEPTION_RANGE
           IN  (\/ app1_broadcast_recv_sensor(sensor_Node, msg)
                \/ wsn_sensor_udp_rx_callback(sensor_Node, msg)
                \/ dis_sensor_udp_rx_callback(sensor_Node, msg))
               => /\ out' # <<>> => dist2(sn.pos, msg.robot_coord) <= R * R
                  /\ sensor'[sensor_Node].active = sn.active
                  /\ sensor'[sensor_Node].pos = sn.pos]_vars

\* C27: the mode and the position of a sensor change only when it handles a
\* command addressed to it.
C27_ModeAndPositionChangeOnCommandOnly ==
    [][(\/ sensor'[sensor_Node].active # sensor[sensor_Node].active
        \/ sensor'[sensor_Node].pos # sensor[sensor_Node].pos)
       => \E msg \in sensor_Commands :
              \/ /\ msg.sensor_id = sensor_Node
                 /\ app1_unicast_recv_sensor_activation(sensor_Node, msg)
              \/ dis_sensor_udp_rx_callback(sensor_Node, msg)]_vars

\* C28: the roles communicate by messages only: a robot learns the LA it
\* works in from a message delivered to it, never from LA_DB or Robot_DB of
\* the base station.
C28_RobotLearnsItsLAFromMessages ==
    [][\A r \in app1_Robots :
           (variant = "app1" /\ robot'[r].robot_current_la_id # robot[r].robot_current_la_id)
           => \E e \in net : e \notin net']_vars

\* C29: within a local phase a grid that is flagged covered stays flagged
\* covered until the report is sent.
C29_CoveredStaysCovered ==
    [][\A r \in Robots :
           LET Working(rb) == IF variant = "app1" THEN rb.pc # "idle" ELSE PhaseOf(rb) # 0
               Grids(rb) == IF variant = "app1" THEN rb.robot_grid_db ELSE rb.grid_db
               Covered(rb) == {g \in DOMAIN Grids(rb) :
                                  IF variant = "dis_robot" THEN Grids(rb)[g].status = 1
                                  ELSE Grids(rb)[g].grid_status = 1}
           IN  (Working(robot[r]) /\ Working(robot'[r]))
               => Covered(robot[r]) \subseteq Covered(robot'[r])]_vars

\* C30: what a robot does on a tick (its tables, its stock, the report it
\* sends) is determined by its state and the tick: two runs of the same
\* events from the same state end alike.
C30_TickOutcomeIsDetermined ==
    \A r \in Robots :
        (variant = "app1" /\ robot[r].pc = "dispersion")
        => \A f1, f2 \in app1_after_yield(robot[r].num_covered_grids_in_this_la) :
               app1_dispersion_loop(robot[r], r, f1) = app1_dispersion_loop(robot[r], r, f2)

\* C31: the total energy of a node is the sum of its accumulators per
\* category, and neither an accumulator nor the total ever decreases.
C31_TotalIsTheSumAndGrows ==
    [][LET sn == sensor[sensor_Node]
           sn2 == sensor'[sensor_Node]
       IN  /\ sn2.total_energy_consumed = sn2.baseline_energy + sn2.sensing_energy
                                          + sn2.processing_energy + sn2.radio_energy
           /\ \A f \in {"baseline_energy", "sensing_energy", "processing_energy",
                        "radio_energy", "total_energy_consumed"} : sn2[f] >= sn[f]]_vars

\* C32: when the base station looks up the LA of a robot, to send the
\* assignment again or to credit a report, it finds the LA of the latest
\* assignment of the robot, never an earlier one.
C32_LookupYieldsLatestAssignment ==
    [][LET Records(r) == {k \in 0..(bs.num_robots - 1) : robot_db[k].robot_id = r}
           Latest(r) == robot_db[CHOOSE k \in Records(r) : \A j \in Records(r) : j <= k]
                            .assigned_la_id
       IN  /\ \* the retry branch of assignment_timer
              (bs.pc = "running" /\ bs.assignments_sent /\ robot_db' = robot_db
                   /\ la_db' = la_db)
              => \A k \in DOMAIN out' : out'[k].la_id = Latest(out'[k].robot_id)
           /\ \* a report is credited
              \A j \in DOMAIN la_db :
                  la_db'[j].no_grid # la_db[j].no_grid
                  => \E r \in wsn_RobotIds :
                         Records(r) # {} /\ Latest(r) = la_db[j].la_id]_vars

\* C33: a robot collects or activates in a grid only sensors its Sensor_DB
\* records as idle; a sensor recorded as active gets no command.
C33_OnlyIdleSensorsAreTaken ==
    [][\A r \in Robots :
           (variant = "app1" /\ robot[r].pc \in {"discovery", "dispersion"})
           => \A k \in DOMAIN out' :
                  out'[k].type = "Robot_to_Sensor"
                  => \E i \in DOMAIN robot[r].robot_sensor_db :
                         /\ robot[r].robot_sensor_db[i].sensor_node_id = out'[k].sensor_id
                         /\ robot[r].robot_sensor_db[i].sensor_status = 0]_vars

\* C34: a RobotReport is credited to the LA of the local phase it reports
\* and only once: a report the base station has processed before (first is
\* the LA it was credited to then, -1 when to none) sets the count of no
\* other LA when it is processed again.
C34_ReportCreditsTheLAOfItsPhase ==
    [][\A e \in net, keep \in BOOLEAN :
          (variant = "app1" /\ e.first # -2 /\ app1_unicast_recv_bs(e, keep))
          => \A i \in DOMAIN la_db :
                 i # e.first => LaCount(la_db', i) = LaCount(la_db, i)]_vars

\* C35: an LA whose report the base station has processed is not assigned
\* again: the assignment that answers a report never names the LA the
\* report was for, whatever count the report carried.
C35_ReportedLAIsNotAssignedAgain ==
    [][variant = "top_bs"
       => \A k \in DOMAIN out' :
              out'[k].la_assignment.la_id
                  # robot_db[out'[k].target_robot_id].assigned_la_id]_vars

\* C36: the counter of the robots that have reported in the current round
\* never exceeds the number of robots.
C36_CounterStaysWithinTheRobots ==
    variant = "app1" => bs.robots_finished_current_phase <= app1_NUM_ROBOTS

\* C37: robot_db of the base station never holds more records than it has
\* slots: every record is stored at an index below the size of the table.
C37_AssignmentTableWithinItsSlots ==
    variant = "wsn_bs"
    => /\ bs.num_robots <= wsn_CONF_MAX_ROBOTS
       /\ \A k \in DOMAIN robot_db : k < wsn_CONF_MAX_ROBOTS

\* C38: in a local phase a discovered sensor is collected once at most, so
\* the stock gains by collection no more sensors than there are discovered
\* sensors within sensor range of a grid of the LA.  The records a local
\* phase leaves in Sensor_DB are the discovered sensors (ids from 1) and the
\* sensors placed from the stock (ids from 100).
C38_CollectedAreDiscoveredSensors ==
    [][\A r \in Robots :
           (variant = "wsn_robot" /\ robot'[r].sensor_db # robot[r].sensor_db)
           => LET rb == robot'[r]
                  db == rb.sensor_db
                  placed == Cardinality({i \in DOMAIN db : db[i].sensor_id >= 100})
                  within(i) == \E g \in DOMAIN rb.grid_db :
                                   dist2(wsn_grid_center(rb, g), wsn_sensor_pos(rb, i))
                                       <= wsn_SENSOR_PERCEPTION_RANGE
                                              * wsn_SENSOR_PERCEPTION_RANGE
                  discovered == Cardinality({i \in DOMAIN db :
                                                db[i].sensor_id < 100 /\ within(i)})
                  gained == rb.stock_rs - robot[r].stock_rs + placed
              IN  gained <= discovered]_vars

\* C39: a grid visit covers one grid at most and the robot only moves to a
\* grid that is uncovered when it leaves for it; so the covered grids are
\* never more than the moves made and the uncovered grids never fewer than
\* the moves left, and the search finds no uncovered grid only when NO_P is 0.
C39_MovesBoundTheCoverage ==
    [][\A r \in Robots :
           variant = "app1"
           => LET U(rb) == {g \in DOMAIN rb.robot_grid_db :
                               rb.robot_grid_db[g].grid_status = 0}
                  rb1 == robot[r]
                  rb2 == robot'[r]
                  moved == rb2.pc = "dispersion" /\ rb2.visits = rb1.visits + 1
              IN  /\ moved
                     => /\ Cardinality(U(rb1)) - Cardinality(U(rb2)) \in {0, 1}
                        /\ \E g \in U(rb1) :
                               rb2.robot_current_pos = rb1.robot_grid_db[g].center_coord
                  /\ rb2.pc = "dispersion"
                     => /\ Cardinality(U(rb2)) >= rb2.robot_no_p
                        /\ app1_MAX_GRIDS_PER_LA - Cardinality(U(rb2))
                               <= app1_MAX_GRIDS_PER_LA - rb2.robot_no_p
                        /\ (app1_nearest_uncovered(rb2.robot_grid_db, rb2.robot_current_pos) = -1
                            => rb2.robot_no_p = 0)]_vars

\* a robot with one move left and two grids uncovered: it has made three
\* moves, two of them each covered a grid and one covered none
C39_Witness ==
    /\ variant = "app1"
    /\ \E r \in Robots :
           /\ robot[r].pc = "dispersion"
           /\ robot[r].robot_no_p = 1
           /\ robot[r].visits = 3
           /\ Cardinality({g \in DOMAIN robot[r].robot_grid_db :
                              robot[r].robot_grid_db[g].grid_status = 0}) = 2

\* C40: after Case 4 has applied at a grid, as long as no Sensor_M changes
\* Sensor_DB, the robot stays at that grid for every move that is left, no
\* further grid becomes covered, and the report carries the count the robot
\* had when Case 4 applied.
C40_Case4RepeatsToTheEnd ==
    [][\A r \in Robots :
           (/\ variant = "app1"
            /\ robot[r].pc = "dispersion"
            /\ robot[r].last_case = 4
            /\ robot[r].robot_stock_rs = 0
            /\ app1_sensors_in_grid(robot[r].robot_sensor_db, robot[r].robot_current_pos) = <<>>
            /\ robot'[r].robot_sensor_db = robot[r].robot_sensor_db
            /\ robot'[r] # robot[r])
           => /\ robot'[r].robot_current_pos = robot[r].robot_current_pos
              /\ robot'[r].robot_grid_db = robot[r].robot_grid_db
              /\ \A k \in DOMAIN out' :
                     out'[k].type = "Robot_pM"
                     => out'[k].covered_grids_in_la
                            = robot[r].num_covered_grids_in_this_la]_vars

====
